---------------------------- MODULE Spec2Model ----------------------------
(***************************************************************************)
(* Model of the trend forecaster (GeminiTrendPredictor) and of the chart   *)
(* recommender (GeminiGraphGenerator) of                                   *)
(* backend/variants_project/gemini_ai_services.py, and of the request      *)
(* handlers of backend/variants/ai_views.py that reach them through the    *)
(* module-level singletons; of the annotation and sync jobs, the SQS       *)
(* queues and the queue workers (annotations/, galaxy_integration/,        *)
(* variants/aws_views.py, variants_project/sqs_handlers.py, tasks.py); and *)
(* of the chat assistant of variants_project/gemini_service.py.            *)
(*                                                                         *)
(* Numbers: calendar days are integers.  numpy/pandas floats are modelled  *)
(* as exact rationals <<num, den>> with den > 0 (rounding is not           *)
(* modelled).  A standard deviation is carried as its square.              *)
(***************************************************************************)
EXTENDS Integers, Sequences, FiniteSets, TLC

(***************************************************************************)
(* Bounds of the model.                                                    *)
(***************************************************************************)
MaxDay == 7        \* record dates lie in 1..MaxDay
MaxCount == 3      \* uniform histories: 0 or c <= MaxCount records on each day
MaxRecords == 8    \* sparse histories: at most MaxRecords records in all
MaxH == 2          \* days_ahead in 1..MaxH
MaxTick == 1       \* the clock advances at most MaxTick days
MaxFields == 4     \* a dataset has at most MaxFields fields
MaxVal == 1        \* heatmap datasets: values in 0..MaxVal
NumThreads == 2    \* concurrent request threads
MaxRequests == 3   \* job requests served in one behaviour
MaxRuns == 2       \* runs of the queue workers in one behaviour
MaxUploads == 1    \* messages sent to the upload queue
MaxCalls == 11     \* calls of the chat view in one behaviour

(***************************************************************************)
(* Program constants.                                                      *)
(***************************************************************************)
MinDataPoints == 7     \* len(historical_data) < 7

VARIABLES
    historical_data,   \* the records handed to the forecaster: a sequence of dates
    days_ahead,        \* the horizon H
    today,             \* datetime.now().date()
    predictions,       \* what the last _generate_predictions call returned
    prev_predictions,  \* what the call before it returned
    trend_result,      \* what the last predict_variant_trends call returned
    daily_counts,      \* the daily_counts['count'] column of the last _generate_predictions
    data,              \* the dataset handed to the recommender: its fields in insertion order
    graph_type,        \* the requested chart type of the last call, or "auto"
    hashseed,          \* the string-hash seed of the interpreter process serving the call
    graph_result,      \* what the last generate_graph_from_data call returned
    prev_graph_result, \* what the call before it returned
    data_analysis,     \* what _analyze_data_structure returned or raised in the last call
    recommendations,   \* what the last _recommend_graph_types call returned, <<>> before it
    api_key,           \* whether GEMINI_API_KEY is set in the environment
    singleton,         \* _trend_predictor and _graph_generator: an instance, or 0 for None
    instances,         \* the service objects constructed so far
    pc,                \* where each request thread stands
    request,           \* the request each thread serves
    created,           \* the instance a thread constructed in the getter, or 0
    instance,          \* the instance the getter returned to a thread, or 0
    response,          \* what the thread's call returned
    job_table,         \* the AnnotationJob and GalaxySyncJob rows, by primary key
    clock,             \* the next reading of timezone.now() / datetime.now()
    messages,          \* the messages held by the SQS queues
    next_message,      \* the id of the next message sent
    worker,            \* the running worker task: its received jobs, position, counters
    task_result,       \* what the last worker task returned
    http,              \* the response of the last job request
    served,            \* the number of job requests served
    runs,              \* the number of worker runs started
    conversation_history, \* VariantChatAssistant.conversation_history
    exchanges,         \* the successful exchanges since the last reset, in call order
    prompt,            \* the history entries and the message put into the last prompt
    reply,             \* the response of the last chat request
    calls              \* the number of chat requests served

fvars == <<historical_data, days_ahead, today, predictions, prev_predictions, trend_result,
          daily_counts>>
gvars == <<data, graph_type, hashseed, graph_result, prev_graph_result, data_analysis,
          recommendations>>
cvars == <<api_key, singleton, instances, pc, request, created, instance, response>>
jvars == <<job_table, clock, messages, next_message, worker, task_result, http, served, runs>>
hvars == <<conversation_history, exchanges, prompt, reply, calls>>

\* A call that has not been made yet has no result.
NotCalled == [pending |-> TRUE]

(***************************************************************************)
(* Helpers: sums, rationals.                                               *)
(***************************************************************************)
RECURSIVE SumTo(_, _)
SumTo(f, n) == IF n = 0 THEN 0 ELSE f[n] + SumTo(f, n - 1)

SetMin(S) == CHOOSE x \in S : \A y \in S : x <= y
SetMax(S) == CHOOSE x \in S : \A y \in S : x >= y

RECURSIVE Gcd(_, _)
Gcd(a, b) == IF b = 0 THEN a ELSE Gcd(b, a % b)

Abs(a) == IF a < 0 THEN -a ELSE a

\* the rational n/d (d > 0) in lowest terms
Rat(n, d) == LET g == Gcd(Abs(n), d) IN <<n \div g, d \div g>>
RatEq(a, b) == a[1] * b[2] = b[1] * a[2]
RatLe(a, b) == a[1] * b[2] <= b[1] * a[2]
RatLt(a, b) == a[1] * b[2] < b[1] * a[2]
RatIsInt(a, c) == a[1] = c * a[2]

(***************************************************************************)
(* Histories: Variant rows ordered by created_at; only the date matters.   *)
(***************************************************************************)
RECURSIVE Expand(_, _)
Expand(counts, d) ==
    IF d = 0 THEN <<>>
    ELSE Expand(counts, d - 1) \o [i \in 1..counts[d] |-> d]

\* every day holds either no record or c records, for one c in 1..MaxCount
UniformHistories ==
    UNION {{Expand(f, MaxDay) : f \in [1..MaxDay -> {0, c}]} : c \in 1..MaxCount}

\* at most MaxRecords records in all, any number of them on one day
RECURSIVE SortedSeqs(_)
SortedSeqs(k) ==
    IF k = 0 THEN {<<>>}
    ELSE LET P == SortedSeqs(k - 1)
         IN  P \cup UNION {{Append(s, d) : d \in (IF s = <<>> THEN 1 ELSE s[Len(s)])..MaxDay}
                            : s \in {q \in P : Len(q) = k - 1}}

SparseHistories == SortedSeqs(MaxRecords)

\* counts that rise by b a day from a, over 2 to MaxCount + 1 days
RisingHistories ==
    {Expand([k \in 1..MaxDay |-> IF k <= n THEN a + b * (k - 1) ELSE 0], MaxDay) :
        n \in 2..(MaxCount + 1), a \in 1..MaxCount, b \in 1..MaxH}

Histories == UniformHistories \cup SparseHistories \cup RisingHistories

(***************************************************************************)
(* _generate_predictions                                                   *)
(***************************************************************************)
Dates(hist) == {hist[i] : i \in 1..Len(hist)}

\* counts the distinct dates of a group instead of its rows
GroupByDate_Mut(hist) == [d \in Dates(hist) |-> 1]

\* df.groupby('date').size(): one row per distinct date
GroupByDate(hist) ==
    [d \in Dates(hist) |-> Cardinality({i \in 1..Len(hist) : hist[i] = d})]

\* the days without records are dropped instead of filled
Reindex_Mut(grouped) ==
    LET RECURSIVE Rows(_)
        Rows(S) == IF S = {} THEN <<>>
                   ELSE Append(Rows(S \ {SetMax(S)}), grouped[SetMax(S)])
    IN  Rows(DOMAIN grouped)

\* pd.date_range(min, max) and reindex(fill_value=0): buckets 1..n, bucket k is
\* day min + k - 1
Reindex(grouped) ==
    LET lo == SetMin(DOMAIN grouped)
        hi == SetMax(DOMAIN grouped)
    IN  [k \in 1..(hi - lo + 1) |->
            IF (lo + k - 1) \in DOMAIN grouped THEN grouped[lo + k - 1] ELSE 0]

\* LinearRegression().fit(X, y) with X = days_since_start = 0..n-1:
\* slope = num/den, prediction at x is (Sy*den - num*Sx + n*num*x) / (n*den)
Fit(y) ==
    LET n   == Len(y)
        Sx  == SumTo([k \in 1..n |-> k - 1], n)
        Sxx == SumTo([k \in 1..n |-> (k - 1) * (k - 1)], n)
        Sy  == SumTo(y, n)
        Sxy == SumTo([k \in 1..n |-> (k - 1) * y[k]], n)
    IN  [n |-> n, Sx |-> Sx, Sy |-> Sy,
         num |-> n * Sxy - Sx * Sy,
         den |-> n * Sxx - Sx * Sx]

Predict(m, x) == Rat(m.Sy * m.den - m.num * m.Sx + m.n * m.num * x, m.n * m.den)

\* the clamp left out
ClampZero_Mut(r) == r

\* np.maximum(predictions, 0)
ClampZero(r) == IF r[1] < 0 THEN Rat(0, r[2]) ELSE r

SlopeThresholdNum == 1    \* 0.1 = 1/10
SlopeThresholdDen == 10

\* the thresholds themselves count as a trend
TrendOf_Mut(m) ==
    IF SlopeThresholdDen * m.num >= SlopeThresholdNum * m.den THEN "increasing"
    ELSE IF SlopeThresholdDen * m.num <= -(SlopeThresholdNum * m.den) THEN "decreasing"
    ELSE "stable"

\* `if slope > 0.1 ... elif slope < -0.1 ... else`
TrendOf(m) ==
    IF SlopeThresholdDen * m.num > SlopeThresholdNum * m.den THEN "increasing"
    ELSE IF SlopeThresholdDen * m.num < -(SlopeThresholdNum * m.den) THEN "decreasing"
    ELSE "stable"

\* daily_counts['count'].std() squared: sum((y - mean)^2) / (n - 1)
\*   = (n*Syy - Sy^2) / (n*(n-1))
StdSquared(y) ==
    LET n   == Len(y)
        Sy  == SumTo(y, n)
        Syy == SumTo([k \in 1..n |-> y[k] * y[k]], n)
    IN  Rat(n * Syy - Sy * Sy, n * (n - 1))

\* An interval bound is a + b*sigma, sigma the historical standard deviation
\* whose square is s2.  max(0, pred - sigma) is 0 exactly when pred < sigma,
\* i.e. pred^2 < sigma^2 (pred >= 0 after clamping).
Bound(a, b, s2) == [a |-> a, b |-> b, s2 |-> s2]

\* the low end is not clamped at zero
calculate_prediction_interval_Mut(preds, sigma2) ==
    [i \in 1..Len(preds) |->
        [lo |-> Bound(preds[i], -1, sigma2), hi |-> Bound(preds[i], 1, sigma2)]]

calculate_prediction_interval(preds, sigma2) ==
    [i \in 1..Len(preds) |->
        LET p == preds[i]
            below == p[1] * p[1] * sigma2[2] < sigma2[1] * p[2] * p[2]
        IN  [lo |-> IF below THEN Bound(Rat(0, 1), 0, sigma2) ELSE Bound(p, -1, sigma2),
             hi |-> Bound(p, 1, sigma2)]]

\* the interval is 10% either side
SingleDay_Mut(avg_daily, H, now) ==
    [predicted_counts |-> [i \in 1..H |-> avg_daily],
     future_dates |-> [i \in 1..H |-> now + i],
     trend_direction |-> "stable",
     confidence_interval |->
        [i \in 1..H |->
            [lo |-> Bound(Rat(9 * avg_daily[1], 10 * avg_daily[2]), 0, Rat(0, 1)),
             hi |-> Bound(Rat(11 * avg_daily[1], 10 * avg_daily[2]), 0, Rat(0, 1))]]]

\* the branch taken when all records fall on one day: avg_daily repeated,
\* dates counted from datetime.now(), interval [0.8*avg, 1.2*avg]
SingleDay(avg_daily, H, now) ==
    [predicted_counts |-> [i \in 1..H |-> avg_daily],
     future_dates |-> [i \in 1..H |-> now + i],
     trend_direction |-> "stable",
     confidence_interval |->
        [i \in 1..H |->
            [lo |-> Bound(Rat(8 * avg_daily[1], 10 * avg_daily[2]), 0, Rat(0, 1)),
             hi |-> Bound(Rat(12 * avg_daily[1], 10 * avg_daily[2]), 0, Rat(0, 1))]]]

ErrorResult(msg) == [error |-> msg]

\* off by one: a history of 6 records passes
InsufficientRecords_Mut(hist) == Len(hist) < MinDataPoints - 1

InsufficientRecords(hist) == Len(hist) < MinDataPoints

\* no daily_counts frame was built
NoBuckets == [built |-> FALSE, count |-> <<>>]

\* the count column of daily_counts when _generate_predictions returns: the
\* groupby rows on the single-day branch, the reindexed rows otherwise
bucket_counts(hist) ==
    IF Len(hist) = 0 \/ InsufficientRecords(hist)
    THEN NoBuckets
    ELSE LET grouped == GroupByDate(hist)
         IN  [built |-> TRUE,
              count |-> IF Cardinality(DOMAIN grouped) < 2
                        THEN <<grouped[SetMin(DOMAIN grouped)]>>
                        ELSE Reindex(grouped)]

generate_predictions(hist, H, now) ==
    IF Len(hist) = 0 \/ InsufficientRecords(hist)
    THEN ErrorResult("Insufficient data for prediction")
    ELSE
      LET grouped == GroupByDate(hist)
          unique_dates == Cardinality(DOMAIN grouped)
      IN
      IF unique_dates < 2
      THEN SingleDay(Rat(Len(hist), IF unique_dates > 1 THEN unique_dates ELSE 1), H, now)
      ELSE
        LET y == bucket_counts(hist).count
            m == Fit(y)
            n == Len(y)
            preds == [i \in 1..H |-> ClampZero(Predict(m, n + i - 1))]
            sigma2 == StdSquared(y)
        IN  [predicted_counts |-> preds,
             future_dates |-> [i \in 1..H |-> SetMax(DOMAIN grouped) + i],
             trend_direction |-> TrendOf(m),
             confidence_interval |-> calculate_prediction_interval(preds, sigma2)]

\* predict_variant_trends: the Gemini analysis and the charts are not modelled
predict_variant_trends(hist, H, now) ==
    IF Len(hist) = 0 \/ InsufficientRecords(hist)
    THEN ErrorResult("Insufficient historical data for prediction. Need at least 7 data points.")
    ELSE [predictions |-> generate_predictions(hist, H, now)]

HasKey(r, k) == k \in DOMAIN r

(***************************************************************************)
(* Datasets of the recommender.  A value is a number, a string or a        *)
(* record (a JSON object, known by its keys).  A field is a key with a     *)
(* list of values, or with something that is not a list.                   *)
(***************************************************************************)
Num(v) == [t |-> "num", v |-> v, s |-> "", keys |-> {}]
Str(c) == [t |-> "str", v |-> 0, s |-> c, keys |-> {}]
Obj(ks) == [t |-> "dict", v |-> 0, s |-> "", keys |-> ks]

Field(key, is_list, value) == [key |-> key, is_list |-> is_list, value |-> value]

\* Python's None where a field name is expected; no field has this name
PyNone == "<None>"

\* `not x` for x a field name or None
Falsy(x) == x = PyNone \/ x = ""

Keys(d) == {d[i].key : i \in 1..Len(d)}
Lookup(d, key) == d[CHOOSE i \in 1..Len(d) : d[i].key = key]

Min2(a, b) == IF a <= b THEN a ELSE b

(***************************************************************************)
(* _analyze_data_structure                                                 *)
(***************************************************************************)
SampleSize == 5

IsListField(f) == f.is_list /\ Len(f.value) > 0

Sample(f) == SubSeq(f.value, 1, Min2(SampleSize, Len(f.value)))

AllOfType(seq, t) == \A i \in 1..Len(seq) : seq[i].t = t

\* the type the if/elif chain gives a field, "" when no branch is taken
Classify(f) ==
    IF ~IsListField(f) THEN ""
    ELSE IF AllOfType(Sample(f), "num") THEN "numerical"
    ELSE IF AllOfType(Sample(f), "str") THEN "categorical"
    ELSE IF AllOfType(Sample(f), "dict") THEN "complex"
    ELSE ""

\* min(value), max(value), sum(value) raise TypeError on a list that holds a
\* non-number after the sample
RangeRaises(f) == Classify(f) = "numerical" /\ ~AllOfType(f.value, "num")

value_range(f) ==
    LET n == Len(f.value)
        vals == {f.value[i].v : i \in 1..n}
    IN  [min |-> SetMin(vals), max |-> SetMax(vals),
         mean |-> Rat(SumTo([i \in 1..n |-> f.value[i].v], n), n)]

\* list(nested_keys): a set of strings is listed in the order of the hashes
\* of its elements, which the interpreter process seeds when it starts; seed
\* is that order on all sub-keys
ListOfSet(S, seed) ==
    LET In(k) == k \in S
    IN  SelectSeq(seed, In)

NestedKeys(f) == UNION {Sample(f)[i].keys : i \in 1..Len(Sample(f))}

KeysOfType(d, t) ==
    LET Is(f) == Classify(f) = t
        fs == SelectSeq(d, Is)
    IN  [i \in 1..Len(fs) |-> fs[i].key]

Raised(msg) == [raised |-> msg]
IsRaised(r) == "raised" \in DOMAIN r

analyze_data_structure(d, seed) ==
    IF \E i \in 1..Len(d) : RangeRaises(d[i])
    THEN Raised("TypeError")
    ELSE
      LET classified == {i \in 1..Len(d) : Classify(d[i]) # ""}
          listed == {i \in 1..Len(d) : IsListField(d[i])}
          numeric == {i \in 1..Len(d) : Classify(d[i]) = "numerical"}
          IsComplex(f) == Classify(f) = "complex"
          complex == SelectSeq(d, IsComplex)
      IN  [data_types |-> [k \in {d[i].key : i \in classified} |-> Classify(Lookup(d, k))],
           dimensions |-> [k \in {d[i].key : i \in listed} |-> Len(Lookup(d, k).value)],
           value_ranges |-> [k \in {d[i].key : i \in numeric} |-> value_range(Lookup(d, k))],
           categorical_fields |-> KeysOfType(d, "categorical"),
           numerical_fields |-> KeysOfType(d, "numerical"),
           temporal_fields |-> <<>>,
           relationships |->
              [i \in 1..Len(complex) |->
                  [field |-> complex[i].key,
                   nested_fields |-> ListOfSet(NestedKeys(complex[i]), seed)]]]

(***************************************************************************)
(* _recommend_graph_types                                                  *)
(***************************************************************************)
MaxRecommendations == 3

\* one recommendation too many is kept
Truncate_Mut(recs) == SubSeq(recs, 1, Min2(MaxRecommendations + 1, Len(recs)))

\* recommendations[:3]
Truncate(recs) == SubSeq(recs, 1, Min2(MaxRecommendations, Len(recs)))

\* the heatmap is recommended one numeric field too late
recommend_graph_types_Mut(a) ==
    LET num_numerical == Len(a.numerical_fields)
        num_categorical == Len(a.categorical_fields)
        recs == (IF a.temporal_fields # <<>> THEN <<"line">> ELSE <<>>)
             \o (IF num_categorical > 0 THEN <<"bar">> ELSE <<>>)
             \o (IF num_categorical = 1 /\ num_numerical >= 1 THEN <<"pie">> ELSE <<>>)
             \o (IF num_numerical >= 2 THEN <<"scatter">> ELSE <<>>)
             \o (IF num_numerical > 3 THEN <<"heatmap">> ELSE <<>>)
    IN  Truncate(IF recs = <<>> THEN <<"bar">> ELSE recs)

\* the scatter plot is recommended from one numeric field
recommend_graph_types_EarlyScatter(a) ==
    LET num_numerical == Len(a.numerical_fields)
        num_categorical == Len(a.categorical_fields)
        recs == (IF a.temporal_fields # <<>> THEN <<"line">> ELSE <<>>)
             \o (IF num_categorical > 0 THEN <<"bar">> ELSE <<>>)
             \o (IF num_categorical = 1 /\ num_numerical >= 1 THEN <<"pie">> ELSE <<>>)
             \o (IF num_numerical >= 1 THEN <<"scatter">> ELSE <<>>)
             \o (IF num_numerical >= 3 THEN <<"heatmap">> ELSE <<>>)
    IN  Truncate(IF recs = <<>> THEN <<"bar">> ELSE recs)

recommend_graph_types(a) ==
    LET num_numerical == Len(a.numerical_fields)
        num_categorical == Len(a.categorical_fields)
        recs == (IF a.temporal_fields # <<>> THEN <<"line">> ELSE <<>>)
             \o (IF num_categorical > 0 THEN <<"bar">> ELSE <<>>)
             \o (IF num_categorical = 1 /\ num_numerical >= 1 THEN <<"pie">> ELSE <<>>)
             \o (IF num_numerical >= 2 THEN <<"scatter">> ELSE <<>>)
             \o (IF num_numerical >= 3 THEN <<"heatmap">> ELSE <<>>)
    IN  Truncate(IF recs = <<>> THEN <<"bar">> ELSE recs)

(***************************************************************************)
(* The chart constructors.  A chart payload keeps of the plotly figure     *)
(* its trace (x and y, or the matrix z) and the fields it was built from;  *)
(* traces is 0 when no trace was added.                                    *)
(***************************************************************************)
First(seq) == IF seq # <<>> THEN seq[1] ELSE PyNone

InlineError(msg) == [error |-> msg]

Chart(type, d, x_field, y_field) ==
    LET both == Lookup(d, x_field).is_list /\ Lookup(d, y_field).is_list
    IN  [type |-> type, x_field |-> x_field, y_field |-> y_field,
         traces |-> IF both THEN 1 ELSE 0,
         x |-> IF both THEN Lookup(d, x_field).value ELSE <<>>,
         y |-> IF both THEN Lookup(d, y_field).value ELSE <<>>]

\* `if not cat_field or not num_field`
MissingField(a_field, b_field) == Falsy(a_field) \/ Falsy(b_field)

generate_bar_chart(d, a) ==
    LET cat_field == First(a.categorical_fields)
        num_field == First(a.numerical_fields)
    IN  IF MissingField(cat_field, num_field)
        THEN InlineError("Insufficient data for bar chart")
        ELSE Chart("bar", d, cat_field, num_field)

generate_line_chart(d, a) ==
    LET y_field == First(a.numerical_fields)
        in_data == {i \in 1..Len(a.temporal_fields) : a.temporal_fields[i] \in Keys(d)}
        t_field == IF in_data # {} THEN a.temporal_fields[SetMin(in_data)] ELSE PyNone
        x_field == IF Falsy(t_field)
                   THEN (IF Len(d) > 0 THEN d[1].key ELSE PyNone)
                   ELSE t_field
    IN  IF MissingField(x_field, y_field)
        THEN InlineError("Insufficient data for line chart")
        ELSE Chart("line", d, x_field, y_field)

generate_pie_chart(d, a) ==
    LET cat_field == First(a.categorical_fields)
        num_field == First(a.numerical_fields)
    IN  IF MissingField(cat_field, num_field)
        THEN InlineError("Insufficient data for pie chart")
        ELSE Chart("pie", d, cat_field, num_field)

MinScatterFields == 2

generate_scatter_plot(d, a) ==
    IF Len(a.numerical_fields) < MinScatterFields
    THEN InlineError("Need at least 2 numerical fields for scatter plot")
    ELSE Chart("scatter", d, a.numerical_fields[1], a.numerical_fields[2])

(***************************************************************************)
(* _generate_heatmap: df.corr(), Pearson.  An entry is NaN when the        *)
(* divisor sqrt(ssx * ssy) is 0; otherwise it is carried as its sign and   *)
(* its square cov^2 / (ssx * ssy).                                         *)
(***************************************************************************)
MinHeatmapFields == 3
MaxHeatmapFields == 5
MinUsableFields == 2

\* n * sum((x - mean x) * (y - mean y)) = n * Sxy - Sx * Sy
Cov_Mut(x, y) ==
    LET n == Len(x)
    IN  n * SumTo([k \in 1..n |-> x[k].v * y[k].v], n)

Cov(x, y) ==
    LET n == Len(x)
    IN  n * SumTo([k \in 1..n |-> x[k].v * y[k].v], n)
        - SumTo([k \in 1..n |-> x[k].v], n) * SumTo([k \in 1..n |-> y[k].v], n)

Sign(a) == IF a > 0 THEN 1 ELSE IF a < 0 THEN -1 ELSE 0

NaN == [nan |-> TRUE, sign |-> 0, r2 |-> <<0, 1>>]

Corr(x, y) ==
    LET c == Cov(x, y)
        ssx == Cov(x, x)
        ssy == Cov(y, y)
    IN  IF ssx * ssy = 0 THEN NaN
        ELSE [nan |-> FALSE, sign |-> Sign(c), r2 |-> Rat(c * c, ssx * ssy)]

generate_heatmap(d, a) ==
    IF Len(a.numerical_fields) < MinHeatmapFields
    THEN InlineError("Need at least 3 numerical fields for heatmap")
    ELSE
      LET first5 == SubSeq(a.numerical_fields, 1, Min2(MaxHeatmapFields, Len(a.numerical_fields)))
          IsUsable(k) == k \in Keys(d) /\ Lookup(d, k).is_list
          cols == SelectSeq(first5, IsUsable)
      IN  IF Len(cols) < MinUsableFields
          THEN InlineError("Insufficient numerical data for heatmap")
          ELSE IF \E i, j \in 1..Len(cols) :
                     Len(Lookup(d, cols[i]).value) # Len(Lookup(d, cols[j]).value)
          THEN Raised("ValueError: All arrays must be of the same length")
          ELSE [type |-> "heatmap", columns |-> cols,
                z |-> [i \in 1..Len(cols) |-> [j \in 1..Len(cols) |->
                         Corr(Lookup(d, cols[i]).value, Lookup(d, cols[j]).value)]]]

generate_specific_graph(d, g_type, a) ==
    IF g_type = "bar" THEN generate_bar_chart(d, a)
    ELSE IF g_type = "line" THEN generate_line_chart(d, a)
    ELSE IF g_type = "pie" THEN generate_pie_chart(d, a)
    ELSE IF g_type = "scatter" THEN generate_scatter_plot(d, a)
    ELSE IF g_type = "heatmap" THEN generate_heatmap(d, a)
    ELSE generate_bar_chart(d, a)

generate_visualization_recommendations(a) ==
    (IF a.temporal_fields # <<>>
     THEN <<"Consider time-series analysis for temporal trends">> ELSE <<>>)
    \o (IF Len(a.categorical_fields) > 0
        THEN <<"Use bar or pie charts for categorical data distributions">> ELSE <<>>)
    \o (IF Len(a.numerical_fields) >= 2
        THEN <<"Explore scatter plots to identify relationships between variables">> ELSE <<>>)
    \o (IF Len(a.numerical_fields) >= 3
        THEN <<"Consider correlation analysis and heatmaps">> ELSE <<>>)
    \o (IF a.relationships # <<>>
        THEN <<"Nested data structures may benefit from hierarchical visualizations">> ELSE <<>>)

(***************************************************************************)
(* generate_graph_from_data: an exception raised anywhere inside the try   *)
(* block gives the single top-level {"error": str(e)}.                     *)
(***************************************************************************)
RecommendedGraphs(a, g_type) ==
    IF g_type = "auto" THEN recommend_graph_types(a) ELSE <<g_type>>

generate_graph_from_data(d, g_type, seed) ==
    LET a == analyze_data_structure(d, seed)
    IN  IF IsRaised(a) THEN [error |-> a.raised]
        ELSE
          LET recommended == RecommendedGraphs(a, g_type)
              types == {recommended[i] : i \in 1..Len(recommended)}
              built == [g \in types |-> generate_specific_graph(d, g, a)]
          IN  IF \E g \in types : IsRaised(built[g])
              THEN [error |-> built[CHOOSE g \in types : IsRaised(built[g])].raised]
              ELSE [graphs |-> built,
                    analysis |-> a,
                    recommendations |-> generate_visualization_recommendations(a)]

(***************************************************************************)
(* The datasets the recommender is applied to: up to MaxFields fields,     *)
(* each with one of the value lists below, under distinct keys.            *)
(***************************************************************************)
KeyNames == <<"f1", "f2", "f3", "f4", "f5", "f6", "f7">>

SubKeys == {"gene", "impact"}
HashOrders == {<<"gene", "impact">>, <<"impact", "gene">>}

NumA == <<Num(1), Num(2), Num(3)>>
NumShort == <<Num(5), Num(9)>>
CatA == <<Str("A"), Str("B"), Str("C")>>
ComplexA == <<Obj({"gene", "impact"}), Obj({"gene"})>>
MixedA == <<Num(1), Str("A")>>
\* numbers in the sample window, a string after it
LateMixed == <<Num(1), Num(2), Num(3), Num(4), Num(5), Str("N/A")>>

\* blank: the field's key is the empty string
Shapes ==
    {[blank |-> FALSE, value |-> v] : v \in {NumA, NumShort, CatA, ComplexA, MixedA, LateMixed}}
    \cup {[blank |-> TRUE, value |-> v] : v \in {NumA, CatA}}

DatasetOf(shapes) ==
    [i \in 1..Len(shapes) |->
        Field(IF shapes[i].blank THEN "" ELSE KeyNames[i], TRUE, shapes[i].value)]

\* a JSON object holds a key once
DistinctKeys(d) == \A i, j \in 1..Len(d) : d[i].key = d[j].key => i = j

Datasets ==
    {d \in {DatasetOf(sh) : sh \in UNION {[1..n -> Shapes] : n \in 0..MaxFields}} :
        DistinctKeys(d)}

\* the datasets the heatmap is built from: MinHeatmapFields numeric fields of
\* one length, with values in 0..MaxVal
ListLengths == {1, 2, 3}

NumericDataset(cols) ==
    [i \in 1..MinHeatmapFields |->
        Field(KeyNames[i], TRUE, [k \in 1..Len(cols[i]) |-> Num(cols[i][k])])]

GraphTypes == {"auto", "bar", "line", "pie", "scatter", "heatmap", "histogram"}

(***************************************************************************)
(* The datasets classification is examined on: also lists longer than the  *)
(* sample, empty lists, values that are not lists, and date strings.       *)
(***************************************************************************)
NumLong == <<Num(1), Num(2), Num(3), Num(4), Num(5), Num(6)>>
CatLong == <<Str("A"), Str("B"), Str("C"), Str("D"), Str("E"), Str("F")>>
\* strings in the sample window, a number after it
CatLate == <<Str("A"), Str("B"), Str("C"), Str("D"), Str("E"), Num(6)>>
DateStrings == {"2024-01-01", "2024-01-02", "2024-01-03"}
DateA == <<Str("2024-01-01"), Str("2024-01-02"), Str("2024-01-03")>>

ClassShapes ==
    {[is_list |-> TRUE, value |-> v] :
        v \in {NumA, CatA, ComplexA, MixedA, NumLong, LateMixed, CatLong, CatLate, DateA, <<>>}}
    \cup {[is_list |-> FALSE, value |-> <<Num(1)>>]}

ClassDatasetOf(shapes) ==
    [i \in 1..Len(shapes) |-> Field(KeyNames[i], shapes[i].is_list, shapes[i].value)]

ClassDatasets ==
    {ClassDatasetOf(sh) : sh \in UNION {[1..n -> ClassShapes] : n \in 0..(MaxFields - 1)}}

(***************************************************************************)
(* Annotation and sync jobs, the SQS queues and the queue workers          *)
(* (annotations/views.py, galaxy_integration/views.py,                     *)
(* variants/aws_views.py, variants_project/sqs_handlers.py,                *)
(* variants_project/aws_config.py, variants_project/tasks.py).             *)
(*                                                                         *)
(* A table is a sequence of rows and the primary key of a row is its       *)
(* index; a deleted row keeps its index with stored = FALSE.  Both job     *)
(* models share one table, told apart by the field `model`.  A time is a   *)
(* reading of the clock; Null is the database NULL.                        *)
(***************************************************************************)
STATUS_CHOICES == {"pending", "running", "completed", "failed", "cancelled"}

ANNOTATION_QUEUE == "moffitt-annotation-jobs"
SYNC_QUEUE == "moffitt-sync-jobs"
UPLOAD_QUEUE == "moffitt-upload-jobs"

Null == 0

\* max_messages=5 of the workers' receive calls
max_messages == 5

\* the names of the stored AnnotationSource rows
AnnotationSources == {"ClinVar"}

\* the `sources` and `variant_ids` a create_job request may carry
SourceLists == {<<>>, <<"ClinVar">>, <<"dbSNP">>}
VariantLists == {<<>>, <<101>>, <<101, 102>>}

\* the job_id values a client may post through AnnotationJobSerializer
ApiJobIds == {"1", "2"}

AnnotationJob(job_id, status, variant_count) ==
    [model |-> "AnnotationJob", job_id |-> job_id, status |-> status,
     variant_count |-> variant_count, processed_count |-> 0,
     started_at |-> Null, completed_at |-> Null, stored |-> TRUE]

GalaxySyncJob ==
    [model |-> "GalaxySyncJob", job_id |-> "", status |-> "pending",
     variant_count |-> 0, processed_count |-> 0,
     started_at |-> Null, completed_at |-> Null, stored |-> TRUE]

\* the primary keys of the rows of one model
Objects(model) ==
    {pk \in DOMAIN job_table : job_table[pk].stored /\ job_table[pk].model = model}

\* AnnotationJob.objects.get(job_id=job_id): the matching keys, {} is DoesNotExist
Get(job_id) == {pk \in Objects("AnnotationJob") : job_table[pk].job_id = job_id}

\* job_id=f"annotation_{len(variant_ids)}_variants"
JobIdOf(variant_ids) == "annotation_" \o ToString(Len(variant_ids)) \o "_variants"

\* the message body json.dumps builds in send_annotation_job
AnnotationBody(variant_ids, sources, job_id) ==
    [job_type |-> "annotation", job_id |-> ToString(job_id),
     variant_ids |-> variant_ids, sources |-> sources]

\* the message body json.dumps builds in send_upload_job
UploadBody(s3_key, filename) ==
    [job_type |-> "upload", s3_key |-> s3_key, filename |-> filename]

\* aws_config.send_sqs_message: the queue contents after a successful send
send_sqs_message(queue_name, message_body) ==
    messages \cup {[id |-> next_message, queue |-> queue_name, body |-> message_body,
                    in_flight |-> FALSE]}

RECURSIVE InOrder(_)
InOrder(S) ==
    IF S = {} THEN <<>>
    ELSE LET m == CHOOSE x \in S : \A y \in S : x.id <= y.id
         IN <<m>> \o InOrder(S \ {m})

\* aws_config.receive_sqs_messages: up to max visible messages of one queue
receive_sqs_messages(queue_name, max) ==
    LET visible == InOrder({m \in messages : m.queue = queue_name /\ ~m.in_flight})
    IN SubSeq(visible, 1, Min2(max, Len(visible)))

\* sqs_handler.receive_annotation_jobs
receive_annotation_jobs(max) ==
    LET received == receive_sqs_messages(ANNOTATION_QUEUE, max)
    IN [k \in 1..Len(received) |->
           [message_id |-> received[k].id,
            receipt_handle |-> [queue |-> received[k].queue, id |-> received[k].id],
            body |-> received[k].body]]

\* the messages a receive call hides from other receivers
InFlight(jobs) ==
    {IF \E k \in 1..Len(jobs) : jobs[k].message_id = m.id
     THEN [m EXCEPT !.in_flight = TRUE] ELSE m : m \in messages}

\* aws_config.delete_sqs_message: a receipt handle deletes on its own queue only
delete_sqs_message(queue_name, receipt_handle, aws_ok) ==
    /\ aws_ok
    /\ receipt_handle.queue = queue_name
    /\ \E m \in messages : m.queue = queue_name /\ m.id = receipt_handle.id

\* sqs_handler.acknowledge_job: result['success']
acknowledge_job(queue_name, receipt_handle, aws_ok) ==
    delete_sqs_message(queue_name, receipt_handle, aws_ok)

Deleted(acknowledged, receipt_handle) ==
    IF acknowledged THEN {m \in messages : m.id # receipt_handle.id} ELSE messages

NoResponse == [action |-> "", pk |-> 0, code |-> 0]

IdleWorker ==
    [task |-> "", jobs |-> <<>>, i |-> 0, processed |-> 0, failed |-> 0, outcomes |-> <<>>]

NoCounters ==
    [task |-> "", success |-> FALSE, processed |-> 0, failed |-> 0, jobs |-> <<>>,
     outcomes |-> <<>>]

JobsIdle ==
    /\ job_table = <<>>
    /\ clock = 1
    /\ messages = {}
    /\ next_message = 1
    /\ worker = IdleWorker
    /\ task_result = NoCounters
    /\ http = NoResponse
    /\ served = 0
    /\ runs = 0

(***************************************************************************)
(* The chat assistant (VariantChatAssistant of gemini_service.py) behind   *)
(* VariantChatView.                                                        *)
(***************************************************************************)
\* len(self.conversation_history) > 10 and conversation_history[-10:]
MaxHistory == 10

\* conversation_history[-5:]
PromptWindow == 5

\* the messages a client may post and the texts the model may generate
ChatMessages == {"", "what", "why"}
Generated == {"answer"}
GenerationFailed == "<Exception>"

NoReply == [status |-> 0, response |-> ""]

NoPrompt == [history |-> <<>>, message |-> ""]

\* seq[-n:]
LastOf_Mut(seq, n) == SubSeq(seq, 1, Min2(n, Len(seq)))

LastOf(seq, n) == SubSeq(seq, IF Len(seq) > n THEN Len(seq) - n + 1 ELSE 1, Len(seq))

ChatIdle ==
    /\ conversation_history = <<>>
    /\ exchanges = <<>>
    /\ prompt = NoPrompt
    /\ reply = NoReply
    /\ calls = 0

(***************************************************************************)
(* Initial states.                                                         *)
(***************************************************************************)
ForecasterIdle ==
    /\ historical_data = <<>>
    /\ days_ahead = 1
    /\ today = MaxDay
    /\ predictions = NotCalled
    /\ prev_predictions = NotCalled
    /\ trend_result = NotCalled
    /\ daily_counts = NoBuckets

GeneratorIdle ==
    /\ data = <<>>
    /\ graph_type = "auto"
    /\ hashseed = <<"gene", "impact">>
    /\ graph_result = NotCalled
    /\ prev_graph_result = NotCalled
    /\ data_analysis = NotCalled
    /\ recommendations = <<>>

Threads == 1..NumThreads

NoRequest == [kind |-> "", days_ahead |-> 0, data |-> <<>>, graph_type |-> ""]

ThreadsIdle ==
    /\ api_key = TRUE
    /\ singleton = [k \in {"trend", "graph"} |-> 0]
    /\ instances = <<>>
    /\ pc = [t \in Threads |-> "done"]
    /\ request = [t \in Threads |-> NoRequest]
    /\ created = [t \in Threads |-> 0]
    /\ instance = [t \in Threads |-> 0]
    /\ response = [t \in Threads |-> NotCalled]

ForecastInit ==
    /\ historical_data \in Histories
    /\ days_ahead \in 1..MaxH
    /\ today = MaxDay
    /\ predictions = NotCalled
    /\ prev_predictions = NotCalled
    /\ trend_result = NotCalled
    /\ daily_counts = NoBuckets
    /\ GeneratorIdle
    /\ ThreadsIdle
    /\ JobsIdle
    /\ ChatIdle

GraphInit ==
    /\ data \in Datasets
    /\ graph_type = "auto"
    /\ hashseed \in HashOrders
    /\ graph_result = NotCalled
    /\ prev_graph_result = NotCalled
    /\ data_analysis = NotCalled
    /\ recommendations = <<>>
    /\ ForecasterIdle
    /\ ThreadsIdle
    /\ JobsIdle
    /\ ChatIdle

(***************************************************************************)
(* The forecaster applied once to every bounded history.                   *)
(***************************************************************************)
GeneratePredictions ==
    /\ predictions = NotCalled
    /\ predictions' = generate_predictions(historical_data, days_ahead, today)
    /\ daily_counts' = bucket_counts(historical_data)
    /\ UNCHANGED <<historical_data, days_ahead, today, prev_predictions, trend_result>>
    /\ UNCHANGED <<gvars, cvars, jvars, hvars>>

PredictVariantTrends ==
    /\ trend_result = NotCalled
    /\ trend_result' = predict_variant_trends(historical_data, days_ahead, today)
    /\ daily_counts' = IF Len(historical_data) = 0 \/ InsufficientRecords(historical_data)
                       THEN daily_counts ELSE bucket_counts(historical_data)
    /\ UNCHANGED <<historical_data, days_ahead, today, predictions, prev_predictions>>
    /\ UNCHANGED <<gvars, cvars, jvars, hvars>>

ForecastNext == GeneratePredictions \/ PredictVariantTrends

(***************************************************************************)
(* The forecaster called twice on the same history while the clock runs.   *)
(***************************************************************************)
CallAgain ==
    /\ prev_predictions = NotCalled
    /\ prev_predictions' = predictions
    /\ predictions' = generate_predictions(historical_data, days_ahead, today)
    /\ daily_counts' = bucket_counts(historical_data)
    /\ UNCHANGED <<historical_data, days_ahead, today, trend_result>>
    /\ UNCHANGED <<gvars, cvars, jvars, hvars>>

Tick ==
    /\ today < MaxDay + MaxTick
    /\ today' = today + 1
    /\ UNCHANGED <<historical_data, days_ahead, predictions, prev_predictions, trend_result,
                   daily_counts>>
    /\ UNCHANGED <<gvars, cvars, jvars, hvars>>

PureNext == CallAgain \/ Tick

(***************************************************************************)
(* The recommender applied once to every bounded dataset.                  *)
(***************************************************************************)
GenerateGraph ==
    /\ graph_result = NotCalled
    /\ \E g \in GraphTypes :
          /\ graph_type' = g
          /\ graph_result' = generate_graph_from_data(data, g, hashseed)
          /\ data_analysis' = analyze_data_structure(data, hashseed)
          /\ recommendations' = IF g = "auto" /\ ~IsRaised(analyze_data_structure(data, hashseed))
                               THEN recommend_graph_types(analyze_data_structure(data, hashseed))
                               ELSE recommendations
    /\ UNCHANGED <<data, hashseed, prev_graph_result>>
    /\ UNCHANGED <<fvars, cvars, jvars, hvars>>

GraphNext == GenerateGraph

(***************************************************************************)
(* The recommender applied once to every dataset of the classification     *)
(* universe.                                                               *)
(***************************************************************************)
ClassifyInit ==
    /\ data \in ClassDatasets
    /\ graph_type = "auto"
    /\ hashseed \in HashOrders
    /\ graph_result = NotCalled
    /\ prev_graph_result = NotCalled
    /\ data_analysis = NotCalled
    /\ recommendations = <<>>
    /\ ForecasterIdle
    /\ ThreadsIdle
    /\ JobsIdle
    /\ ChatIdle

(***************************************************************************)
(* _recommend_graph_types applied once to every field analysis with up to  *)
(* MaxFields temporal, categorical and numeric fields under two namings.   *)
(***************************************************************************)
NamedFields(offset, n) == SubSeq(KeyNames, offset + 1, offset + n)

Analyses ==
    {[temporal_fields |-> NamedFields(o[1], k[1]),
      categorical_fields |-> NamedFields(o[2], k[2]),
      numerical_fields |-> NamedFields(o[3], k[3])] :
        o \in [1..3 -> {0, 1}], k \in [1..3 -> 0..MaxFields]}

RecommendInit ==
    /\ data = <<>>
    /\ graph_type = "auto"
    /\ hashseed = <<"gene", "impact">>
    /\ graph_result = NotCalled
    /\ prev_graph_result = NotCalled
    /\ data_analysis \in Analyses
    /\ recommendations = <<>>
    /\ ForecasterIdle
    /\ ThreadsIdle
    /\ JobsIdle
    /\ ChatIdle

RecommendGraphTypes ==
    /\ recommendations = <<>>
    /\ recommendations' = recommend_graph_types(data_analysis)
    /\ UNCHANGED <<data, graph_type, hashseed, graph_result, prev_graph_result, data_analysis>>
    /\ UNCHANGED <<fvars, cvars, jvars, hvars>>

RecommendNext == RecommendGraphTypes

(***************************************************************************)
(* The heatmap built, on request or on recommendation, from every bounded  *)
(* numeric dataset.                                                        *)
(***************************************************************************)
HeatmapInit ==
    /\ \E len \in ListLengths :
          \E cols \in [1..MinHeatmapFields -> [1..len -> 0..MaxVal]] :
              data = NumericDataset(cols)
    /\ graph_type = "auto"
    /\ hashseed = <<"gene", "impact">>
    /\ graph_result = NotCalled
    /\ prev_graph_result = NotCalled
    /\ data_analysis = NotCalled
    /\ recommendations = <<>>
    /\ ForecasterIdle
    /\ ThreadsIdle
    /\ JobsIdle
    /\ ChatIdle

GenerateHeatmapGraph ==
    /\ graph_result = NotCalled
    /\ \E g \in {"auto", "heatmap"} :
          /\ graph_type' = g
          /\ graph_result' = generate_graph_from_data(data, g, hashseed)
          /\ data_analysis' = analyze_data_structure(data, hashseed)
          /\ recommendations' = IF g = "auto" /\ ~IsRaised(analyze_data_structure(data, hashseed))
                               THEN recommend_graph_types(analyze_data_structure(data, hashseed))
                               ELSE recommendations
    /\ UNCHANGED <<data, hashseed, prev_graph_result>>
    /\ UNCHANGED <<fvars, cvars, jvars, hvars>>

HeatmapNext == GenerateHeatmapGraph

(***************************************************************************)
(* The recommender called twice with the same arguments; between the calls *)
(* the serving interpreter process may be replaced by another one.         *)
(***************************************************************************)
GenerateGraphAgain ==
    /\ prev_graph_result = NotCalled
    /\ \E g \in GraphTypes :
          /\ graph_result # NotCalled => g = graph_type
          /\ graph_type' = g
          /\ prev_graph_result' = graph_result
          /\ graph_result' = generate_graph_from_data(data, g, hashseed)
          /\ data_analysis' = analyze_data_structure(data, hashseed)
          /\ recommendations' = IF g = "auto" /\ ~IsRaised(analyze_data_structure(data, hashseed))
                               THEN recommend_graph_types(analyze_data_structure(data, hashseed))
                               ELSE recommendations
    /\ UNCHANGED <<data, hashseed>>
    /\ UNCHANGED <<fvars, cvars, jvars, hvars>>

Restart ==
    /\ \E seed \in HashOrders \ {hashseed} : hashseed' = seed
    /\ UNCHANGED <<data, graph_type, graph_result, prev_graph_result, data_analysis,
                   recommendations>>
    /\ UNCHANGED <<fvars, cvars, jvars, hvars>>

GraphPureNext == GenerateGraphAgain \/ Restart

(***************************************************************************)
(* Request threads of one process that reach the services through the      *)
(* lazily initialised module globals (get_trend_predictor,                 *)
(* get_graph_generator) and call them.  A thread may be preempted between  *)
(* any two of its steps.                                                   *)
(***************************************************************************)
GeminiModel == "gemini-2.0-flash-exp"

ClassOf(kind) == IF kind = "trend" THEN "GeminiTrendPredictor" ELSE "GeminiGraphGenerator"

\* both getters use the one global
SlotOf_Mut(kind) == "trend"

\* the global a getter tests, assigns and returns
SlotOf(kind) == kind

InitFailed(kind) ==
    [error |-> IF kind = "trend" THEN "Failed to initialize trend predictor"
               ELSE "Failed to initialize graph generator"]

AttributeError == [error |-> "AttributeError"]

\* what the service method returns for a request, by itself
Alone(req) ==
    IF req.kind = "trend"
    THEN predict_variant_trends(historical_data, req.days_ahead, today)
    ELSE generate_graph_from_data(req.data, req.graph_type, hashseed)

\* the method looked up on the object the getter returned
Invoke(id, req) ==
    IF id = 0 THEN AttributeError
    ELSE IF instances[id].cls # ClassOf(req.kind) THEN AttributeError
    ELSE Alone(req)

SevenOnOneDay == [i \in 1..MinDataPoints |-> 1]
OnePerDay == [i \in 1..MinDataPoints |-> i]

ConcHistories == {<<>>, SevenOnOneDay, OnePerDay}

ConcDatasets ==
    {DatasetOf(<<[blank |-> FALSE, value |-> CatA], [blank |-> FALSE, value |-> NumA]>>),
     DatasetOf(<<[blank |-> FALSE, value |-> ComplexA]>>),
     DatasetOf(<<[blank |-> FALSE, value |-> NumA], [blank |-> FALSE, value |-> NumShort],
                 [blank |-> FALSE, value |-> NumA]>>)}

Requests ==
    {[kind |-> "trend", days_ahead |-> 1, data |-> <<>>, graph_type |-> ""]}
    \cup {[kind |-> "graph", days_ahead |-> 0, data |-> d, graph_type |-> "auto"] :
             d \in ConcDatasets}

ConcInit ==
    /\ historical_data \in ConcHistories
    /\ days_ahead = 1
    /\ today = MaxDay
    /\ predictions = NotCalled
    /\ prev_predictions = NotCalled
    /\ trend_result = NotCalled
    /\ daily_counts = NoBuckets
    /\ GeneratorIdle
    /\ api_key \in BOOLEAN
    /\ singleton = [k \in {"trend", "graph"} |-> 0]
    /\ instances = <<>>
    /\ pc = [t \in Threads |-> "get"]
    /\ request \in [Threads -> Requests]
    /\ created = [t \in Threads |-> 0]
    /\ instance = [t \in Threads |-> 0]
    /\ response = [t \in Threads |-> NotCalled]
    /\ JobsIdle
    /\ ChatIdle

\* `if _trend_predictor is None:`
TestGlobal(t) ==
    /\ pc[t] = "get"
    /\ pc' = [pc EXCEPT ![t] = IF singleton[SlotOf(request[t].kind)] = 0
                                THEN "construct" ELSE "return"]
    /\ UNCHANGED <<api_key, singleton, instances, request, created, instance, response>>
    /\ UNCHANGED <<fvars, gvars, jvars, hvars>>

\* `GeminiTrendPredictor()`: GeminiService.__init__ raises without the key
Construct(t) ==
    /\ pc[t] = "construct"
    /\ IF api_key
       THEN /\ instances' = Append(instances, [cls |-> ClassOf(request[t].kind),
                                               model_name |-> GeminiModel])
            /\ created' = [created EXCEPT ![t] = Len(instances) + 1]
            /\ pc' = [pc EXCEPT ![t] = "assign"]
            /\ UNCHANGED response
       ELSE /\ response' = [response EXCEPT ![t] = InitFailed(request[t].kind)]
            /\ pc' = [pc EXCEPT ![t] = "done"]
            /\ UNCHANGED <<instances, created>>
    /\ UNCHANGED <<api_key, singleton, request, instance>>
    /\ UNCHANGED <<fvars, gvars, jvars, hvars>>

\* `_trend_predictor = ...`
AssignGlobal(t) ==
    /\ pc[t] = "assign"
    /\ singleton' = [singleton EXCEPT ![SlotOf(request[t].kind)] = created[t]]
    /\ pc' = [pc EXCEPT ![t] = "return"]
    /\ UNCHANGED <<api_key, instances, request, created, instance, response>>
    /\ UNCHANGED <<fvars, gvars, jvars, hvars>>

\* `return _trend_predictor`
ReturnGlobal(t) ==
    /\ pc[t] = "return"
    /\ instance' = [instance EXCEPT ![t] = singleton[SlotOf(request[t].kind)]]
    /\ pc' = [pc EXCEPT ![t] = "call"]
    /\ UNCHANGED <<api_key, singleton, instances, request, created, response>>
    /\ UNCHANGED <<fvars, gvars, jvars, hvars>>

\* `trend_predictor.predict_variant_trends(...)`,
\* `graph_generator.generate_graph_from_data(...)`
CallService(t) ==
    /\ pc[t] = "call"
    /\ response' = [response EXCEPT ![t] = Invoke(instance[t], request[t])]
    /\ pc' = [pc EXCEPT ![t] = "done"]
    /\ UNCHANGED <<api_key, singleton, instances, request, created, instance>>
    /\ UNCHANGED <<fvars, gvars, jvars, hvars>>

ConcNext ==
    \E t \in Threads :
        \/ TestGlobal(t)
        \/ Construct(t)
        \/ AssignGlobal(t)
        \/ ReturnGlobal(t)
        \/ CallService(t)

(***************************************************************************)
(* The job handlers, the SQS senders and the queue workers.  A request     *)
(* handler is one step; a worker run is a receive step, one step for each  *)
(* received job (the body of its loop) and a return step, and requests     *)
(* are served between them.                                                *)
(***************************************************************************)
JobsInit ==
    /\ JobsIdle
    /\ ChatIdle
    /\ ForecasterIdle
    /\ GeneratorIdle
    /\ ThreadsIdle

Respond(action, pk, code) ==
    /\ http' = [action |-> action, pk |-> pk, code |-> code]
    /\ served' = served + 1

\* annotation_job.delete() after a failed send
Rollback_Mut(annotation_job) == annotation_job

Rollback(annotation_job) == [annotation_job EXCEPT !.stored = FALSE]

\* AWSAnnotationJobViewSet.create_job
create_job(variant_ids, sources, send_ok) ==
    /\ served < MaxRequests
    /\ \/ /\ variant_ids = <<>> \/ sources = <<>>
          /\ Respond("create_job", 0, 400)
          /\ UNCHANGED <<job_table, messages, next_message>>
       \/ /\ variant_ids # <<>> /\ sources # <<>>
          /\ Get(JobIdOf(variant_ids)) # {}
          /\ Respond("create_job", 0, 500)
          /\ UNCHANGED <<job_table, messages, next_message>>
       \/ /\ variant_ids # <<>> /\ sources # <<>>
          /\ Get(JobIdOf(variant_ids)) = {}
          /\ LET annotation_job ==
                     AnnotationJob(JobIdOf(variant_ids), "pending", Len(variant_ids))
                 id == Len(job_table) + 1
             IN IF send_ok
                THEN /\ job_table' = Append(job_table, annotation_job)
                     /\ messages' = send_sqs_message(ANNOTATION_QUEUE,
                                        AnnotationBody(variant_ids, sources, id))
                     /\ next_message' = next_message + 1
                     /\ Respond("create_job", id, 201)
                ELSE /\ job_table' = Append(job_table, Rollback(annotation_job))
                     /\ UNCHANGED <<messages, next_message>>
                     /\ Respond("create_job", id, 400)
    /\ UNCHANGED <<clock, worker, task_result, runs>>
    /\ UNCHANGED <<fvars, gvars, cvars, hvars>>

CreateJob ==
    \E variant_ids \in VariantLists, sources \in SourceLists, send_ok \in BOOLEAN :
        create_job(variant_ids, sources, send_ok)

\* AnnotationSourceViewSet.create_job: a job posted through AnnotationJobSerializer
CreateAnnotationJob ==
    \E job_id \in ApiJobIds, st \in STATUS_CHOICES :
        /\ served < MaxRequests
        /\ IF Get(job_id) # {}
           THEN /\ Respond("create", 0, 400)
                /\ UNCHANGED job_table
           ELSE /\ job_table' = Append(job_table, AnnotationJob(job_id, st, 1))
                /\ Respond("create", Len(job_table) + 1, 201)
        /\ UNCHANGED <<clock, messages, next_message, worker, task_result, runs>>
        /\ UNCHANGED <<fvars, gvars, cvars, hvars>>

\* GalaxySyncJobViewSet.create through GalaxySyncJobCreateSerializer
CreateSyncJob ==
    /\ served < MaxRequests
    /\ job_table' = Append(job_table, GalaxySyncJob)
    /\ Respond("create", Len(job_table) + 1, 201)
    /\ UNCHANGED <<clock, messages, next_message, worker, task_result, runs>>
    /\ UNCHANGED <<fvars, gvars, cvars, hvars>>

\* job.status != 'pending'
StartRefused_Mut(st) == st \notin {"pending", "cancelled"}

StartRefused(st) == st # "pending"

\* job.status not in ['pending', 'running']
CancelRefused_Mut(st) == st \notin {"pending", "running", "completed"}

CancelRefused(st) == st \notin {"pending", "running"}

\* AnnotationJobViewSet.start, GalaxySyncJobViewSet.start
start(pk) ==
    /\ served < MaxRequests
    /\ IF StartRefused(job_table[pk].status)
       THEN /\ Respond("start", pk, 400)
            /\ UNCHANGED <<job_table, clock>>
       ELSE /\ job_table' = [job_table EXCEPT ![pk].status = "running",
                                              ![pk].started_at = clock]
            /\ clock' = clock + 1
            /\ Respond("start", pk, 200)
    /\ UNCHANGED <<messages, next_message, worker, task_result, runs>>
    /\ UNCHANGED <<fvars, gvars, cvars, hvars>>

\* AnnotationJobViewSet.cancel, GalaxySyncJobViewSet.cancel
cancel(pk) ==
    /\ served < MaxRequests
    /\ IF CancelRefused(job_table[pk].status)
       THEN /\ Respond("cancel", pk, 400)
            /\ UNCHANGED job_table
       ELSE /\ job_table' = [job_table EXCEPT ![pk].status = "cancelled"]
            /\ Respond("cancel", pk, 200)
    /\ UNCHANGED <<clock, messages, next_message, worker, task_result, runs>>
    /\ UNCHANGED <<fvars, gvars, cvars, hvars>>

StartAnnotationJob == \E pk \in Objects("AnnotationJob") : start(pk)

CancelAnnotationJob == \E pk \in Objects("AnnotationJob") : cancel(pk)

StartSyncJob == \E pk \in Objects("GalaxySyncJob") : start(pk)

CancelSyncJob == \E pk \in Objects("GalaxySyncJob") : cancel(pk)

\* sqs_handler.send_upload_job
send_upload_job(s3_key, filename) ==
    /\ Cardinality({m \in messages : m.queue = UPLOAD_QUEUE}) < MaxUploads
    /\ messages' = send_sqs_message(UPLOAD_QUEUE, UploadBody(s3_key, filename))
    /\ next_message' = next_message + 1
    /\ UNCHANGED <<job_table, clock, worker, task_result, http, served, runs>>
    /\ UNCHANGED <<fvars, gvars, cvars, hvars>>

SendUploadJob == send_upload_job("uploads/a.vcf", "a.vcf")

\* a worker task up to its loop: result = sqs_handler.receive_annotation_jobs(5)
Receive(task) ==
    /\ worker.task = ""
    /\ runs < MaxRuns
    /\ LET jobs == receive_annotation_jobs(max_messages)
       IN /\ worker' = [task |-> task, jobs |-> jobs, i |-> 1, processed |-> 0,
                        failed |-> 0, outcomes |-> <<>>]
          /\ messages' = InFlight(jobs)
    /\ runs' = runs + 1
    /\ UNCHANGED <<job_table, clock, next_message, task_result, http, served>>
    /\ UNCHANGED <<fvars, gvars, cvars, hvars>>

\* process_annotation_jobs, lines 17-26
ProcessAnnotationJobs == Receive("process_annotation_jobs")

\* process_upload_jobs, lines 150-159
ProcessUploadJobs == Receive("process_upload_jobs")

\* the loop body of process_annotation_jobs for one received job; ack_ok: the
\* SQS delete succeeds, running_ok and completed_ok: the two save() calls succeed
annotate(ack_ok, running_ok, completed_ok) ==
        /\ worker.task = "process_annotation_jobs"
        /\ worker.i <= Len(worker.jobs)
        /\ LET job == worker.jobs[worker.i]
               body == job.body
               found == Get(body.job_id)
               annotation_job == CHOOSE pk \in found : TRUE
               present == \E k \in 1..Len(body.sources) :
                              body.sources[k] \in AnnotationSources
               runs_it == found # {} /\ present
               raised_running == runs_it /\ ~running_ok
               acknowledged == /\ ~raised_running
                               /\ acknowledge_job(ANNOTATION_QUEUE, job.receipt_handle,
                                                  ack_ok)
               raised_completed == ~raised_running /\ found # {} /\ ~completed_ok
               running == [job_table[annotation_job] EXCEPT
                               !.status = "running", !.started_at = clock]
               saved == IF runs_it THEN running ELSE job_table[annotation_job]
               completed == [saved EXCEPT !.status = "completed",
                                          !.completed_at = clock,
                                          !.processed_count = Len(body.variant_ids)]
           IN /\ job_table' =
                     IF found = {} \/ raised_running THEN job_table
                     ELSE IF raised_completed
                          THEN [job_table EXCEPT ![annotation_job] = saved]
                          ELSE [job_table EXCEPT ![annotation_job] = completed]
              /\ clock' = IF job_table' # job_table THEN clock + 1 ELSE clock
              /\ messages' = Deleted(acknowledged, job.receipt_handle)
              /\ worker' = [worker EXCEPT
                     !.i = @ + 1,
                     !.processed = IF raised_running THEN @ ELSE @ + 1,
                     !.failed = IF raised_running \/ raised_completed THEN @ + 1 ELSE @,
                     !.outcomes = Append(@,
                         [acknowledged |-> acknowledged,
                          raised |-> raised_running \/ raised_completed,
                          processed |-> ~raised_running,
                          failed |-> raised_running \/ raised_completed])]
        /\ UNCHANGED <<next_message, task_result, http, served, runs>>
        /\ UNCHANGED <<fvars, gvars, cvars, hvars>>

\* one job of the loop with SQS and the database answering
AnnotateJob == annotate(TRUE, TRUE, TRUE)

\* one job of the loop with SQS or the database failing or not
AnnotateJobOrFail ==
    \E ack_ok \in BOOLEAN, running_ok \in BOOLEAN, completed_ok \in BOOLEAN :
        annotate(ack_ok, running_ok, completed_ok)

\* the loop body of process_upload_jobs for one received job
UploadJob ==
    \E ack_ok \in BOOLEAN :
        /\ worker.task = "process_upload_jobs"
        /\ worker.i <= Len(worker.jobs)
        /\ LET job == worker.jobs[worker.i]
               acknowledged == acknowledge_job(UPLOAD_QUEUE, job.receipt_handle, ack_ok)
           IN /\ messages' = Deleted(acknowledged, job.receipt_handle)
              /\ worker' = [worker EXCEPT
                     !.i = @ + 1,
                     !.processed = @ + 1,
                     !.outcomes = Append(@,
                         [acknowledged |-> acknowledged, raised |-> FALSE,
                          processed |-> TRUE, failed |-> FALSE])]
        /\ UNCHANGED <<job_table, clock, next_message, task_result, http, served, runs>>
        /\ UNCHANGED <<fvars, gvars, cvars, hvars>>

\* return {'success': True, 'processed': processed, 'failed': failed, ...}
ReturnCounters ==
    /\ worker.task # ""
    /\ worker.i > Len(worker.jobs)
    /\ task_result' = [task |-> worker.task, success |-> TRUE,
                       processed |-> worker.processed, failed |-> worker.failed,
                       jobs |-> worker.jobs, outcomes |-> worker.outcomes]
    /\ worker' = IdleWorker
    /\ UNCHANGED <<job_table, clock, messages, next_message, http, served, runs>>
    /\ UNCHANGED <<fvars, gvars, cvars, hvars>>

\* SQS: a received message that was not deleted becomes visible again
VisibilityTimeout ==
    \E m \in messages :
        /\ m.in_flight
        /\ messages' = (messages \ {m}) \cup {[m EXCEPT !.in_flight = FALSE]}
        /\ UNCHANGED <<job_table, clock, next_message, worker, task_result, http, served,
                       runs>>
        /\ UNCHANGED <<fvars, gvars, cvars, hvars>>

JobsNext ==
    \/ CreateJob
    \/ CreateAnnotationJob
    \/ CreateSyncJob
    \/ StartAnnotationJob
    \/ CancelAnnotationJob
    \/ StartSyncJob
    \/ CancelSyncJob
    \/ ProcessAnnotationJobs
    \/ AnnotateJob
    \/ ReturnCounters

QueuesNext ==
    \/ CreateJob
    \/ CreateAnnotationJob
    \/ SendUploadJob
    \/ ProcessAnnotationJobs
    \/ AnnotateJobOrFail
    \/ ProcessUploadJobs
    \/ UploadJob
    \/ ReturnCounters
    \/ VisibilityTimeout

(***************************************************************************)
(* The chat view and the assistant, one call a step.                       *)
(***************************************************************************)
ChatInit ==
    /\ ChatIdle
    /\ JobsIdle
    /\ ForecasterIdle
    /\ GeneratorIdle
    /\ ThreadsIdle

\* the entries chat() writes into the prompt
PromptHistory(history) == LastOf(history, PromptWindow)

\* the list after the append and the trim of chat()
Appended(history, entry) ==
    LET longer == Append(history, entry)
    IN IF Len(longer) > MaxHistory THEN LastOf(longer, MaxHistory) ELSE longer

\* VariantChatAssistant.chat
chat(message, generated) ==
    /\ prompt' = [history |-> PromptHistory(conversation_history), message |-> message]
    /\ IF generated = GenerationFailed
       THEN /\ reply' = [status |-> 200, response |-> "I apologize"]
            /\ UNCHANGED <<conversation_history, exchanges>>
       ELSE /\ conversation_history' =
                   Appended(conversation_history,
                            [user |-> message, assistant |-> generated])
            /\ exchanges' = Append(exchanges, [user |-> message, assistant |-> generated])
            /\ reply' = [status |-> 200, response |-> generated]

\* VariantChatView.post
ChatPost ==
    \E message \in ChatMessages, generated \in Generated \cup {GenerationFailed} :
        /\ calls < MaxCalls
        /\ calls' = calls + 1
        /\ IF message = ""
           THEN /\ reply' = [status |-> 400, response |-> ""]
                /\ UNCHANGED <<conversation_history, exchanges, prompt>>
           ELSE chat(message, generated)
        /\ UNCHANGED <<fvars, gvars, cvars, jvars>>

\* VariantChatAssistant.reset_conversation behind VariantChatView.delete
reset_conversation ==
    /\ calls < MaxCalls
    /\ calls' = calls + 1
    /\ conversation_history' = <<>>
    /\ exchanges' = <<>>
    /\ reply' = [status |-> 200, response |-> "Conversation history reset"]
    /\ UNCHANGED prompt
    /\ UNCHANGED <<fvars, gvars, cvars, jvars>>

ChatNext ==
    \/ ChatPost
    \/ reset_conversation

vars == <<fvars, gvars, cvars, jvars, hvars>>

SpecForecast == ForecastInit /\ [][ForecastNext]_vars

SpecPure == ForecastInit /\ [][PureNext]_vars

SpecGraph == GraphInit /\ [][GraphNext]_vars

SpecGraphPure == GraphInit /\ [][GraphPureNext]_vars

SpecHeatmap == HeatmapInit /\ [][HeatmapNext]_vars

SpecConc == ConcInit /\ [][ConcNext]_vars

SpecClassify == ClassifyInit /\ [][GraphNext]_vars

SpecRecommend == RecommendInit /\ [][RecommendNext]_vars

SpecJobs == JobsInit /\ [][JobsNext]_vars

SpecQueues == JobsInit /\ [][QueuesNext]_vars

SpecChat == ChatInit /\ [][ChatNext]_vars

(***************************************************************************)
(* Forecaster properties.                                                  *)
(***************************************************************************)
Called(r) == r # NotCalled

NoPredictionKeys(r) ==
    /\ ~HasKey(r, "predicted_counts")
    /\ ~HasKey(r, "future_dates")
    /\ ~HasKey(r, "confidence_interval")
    /\ ~HasKey(r, "predictions")

IsInsufficient(r) == HasKey(r, "error") /\ NoPredictionKeys(r)

DistinctDays(hist) == Cardinality(Dates(hist))

\* C1 as stated: a history on fewer than 7 distinct calendar days gets an
\* insufficient-data error and no predictions, whatever its number of records.
C1_FewerThan7Days_Error ==
    DistinctDays(historical_data) < 7 =>
        /\ Called(predictions) => IsInsufficient(predictions)
        /\ Called(trend_result) => IsInsufficient(trend_result)

\* C1 amended: a history of fewer than 7 records gets an insufficient-data
\* error and no predicted_counts, future_dates or confidence_interval, from
\* _generate_predictions and from predict_variant_trends.
C1_FewerThan7Records_Error ==
    Len(historical_data) < 7 =>
        /\ Called(predictions) => IsInsufficient(predictions)
        /\ Called(trend_result) => IsInsufficient(trend_result)

C1_Witness ==
    /\ Len(historical_data) = 6
    /\ DistinctDays(historical_data) = 6
    /\ Called(predictions) /\ IsInsufficient(predictions)
    /\ Called(trend_result) /\ IsInsufficient(trend_result)

\* C2: every forecast without an error has exactly days_ahead predicted
\* counts, future dates and confidence intervals, and no predicted count is
\* negative, on the regression path and on the single-day path.
C2_LengthsAndNonNegative ==
    (Called(predictions) /\ ~HasKey(predictions, "error")) =>
        /\ Len(predictions.predicted_counts) = days_ahead
        /\ Len(predictions.future_dates) = days_ahead
        /\ Len(predictions.confidence_interval) = days_ahead
        /\ \A i \in 1..days_ahead :
              /\ predictions.predicted_counts[i][1] >= 0
              /\ predictions.predicted_counts[i][2] > 0

\* a regression-path forecast in which the fitted line is below zero at a
\* forecast day and the returned count is the clamped 0
C2_Witness ==
    /\ Called(predictions) /\ ~HasKey(predictions, "error")
    /\ DistinctDays(historical_data) >= 2
    /\ days_ahead = MaxH
    /\ LET y == Reindex(GroupByDate(historical_data))
       IN  /\ Predict(Fit(y), Len(y) + days_ahead - 1)[1] < 0
           /\ predictions.predicted_counts[days_ahead][1] = 0

\* the same count c on every day of a range of at least 7 consecutive days
ConstantSeries(hist, c) ==
    /\ Len(hist) > 0
    /\ LET first == hist[1]
           last == hist[Len(hist)]
       IN  /\ last - first + 1 >= 7
           /\ \A d \in first..last :
                 Cardinality({i \in 1..Len(hist) : hist[i] = d}) = c

\* C3: a history with the same count c on each of at least 7 consecutive
\* days is forecast as 'stable' with every predicted count equal to c.
C3_ConstantSeries_Stable ==
    \A c \in 1..MaxCount :
        (Called(predictions) /\ ConstantSeries(historical_data, c)) =>
            /\ ~HasKey(predictions, "error")
            /\ predictions.trend_direction = "stable"
            /\ Len(predictions.predicted_counts) = days_ahead
            /\ \A i \in 1..days_ahead : RatIsInt(predictions.predicted_counts[i], c)

C3_Witness ==
    /\ Called(predictions)
    /\ ConstantSeries(historical_data, 2)
    /\ predictions.trend_direction = "stable"
    /\ RatIsInt(predictions.predicted_counts[days_ahead], 2)

\* C8 as stated: two calls of _generate_predictions with the same history
\* and horizon return the same result whenever they are made.
C8_SameInputsSameResult ==
    (Called(prev_predictions) /\ Called(predictions)) => prev_predictions = predictions

(***************************************************************************)
(* Recommender properties.                                                 *)
(***************************************************************************)
\* every list of the dataset holds values of one type
Homogeneous(d) ==
    \A i \in 1..Len(d) : \A j, k \in 1..Len(d[i].value) : d[i].value[j].t = d[i].value[k].t

FieldsOfType(d, t) ==
    {i \in 1..Len(d) : d[i].is_list /\ Len(d[i].value) > 0 /\ AllOfType(d[i].value, t)}

NumericFields(d) == FieldsOfType(d, "num")
CategoricalFields(d) == FieldsOfType(d, "str")

EqualLength(d, S) == \A i, j \in S : Len(d[i].value) = Len(d[j].value)

IsChart(payload, type) == ~HasKey(payload, "error") /\ payload.type = type

HasGraphs(r) == HasKey(r, "graphs") /\ ~HasKey(r, "error")

AutoCalled == Called(graph_result) /\ graph_type = "auto"

HeatmapBuilt ==
    /\ Called(graph_result)
    /\ HasGraphs(graph_result)
    /\ "heatmap" \in DOMAIN graph_result.graphs
    /\ IsChart(graph_result.graphs["heatmap"], "heatmap")

One == [nan |-> FALSE, sign |-> 1, r2 |-> <<1, 1>>]

\* -1 <= r <= 1, i.e. r is a number with r^2 <= 1
InUnitRange(e) == ~e.nan /\ RatLe(e.r2, <<1, 1>>)

Square(h) ==
    /\ Len(h.z) = Len(h.columns)
    /\ \A i \in 1..Len(h.z) : Len(h.z[i]) = Len(h.columns)

Symmetric(h) == \A i, j \in 1..Len(h.z) : h.z[i][j] = h.z[j][i]

AllEqual(seq) == \A i, j \in 1..Len(seq) : seq[i] = seq[j]

\* C6 as stated: the correlation matrix of a heatmap is square and symmetric,
\* has 1 on the diagonal for every field, constant fields included, and has
\* every entry in [-1, 1].
C6_CorrelationMatrix ==
    HeatmapBuilt =>
        LET h == graph_result.graphs["heatmap"]
        IN  /\ Square(h)
            /\ Symmetric(h)
            /\ \A i \in 1..Len(h.z) : h.z[i][i] = One
            /\ \A i, j \in 1..Len(h.z) : InUnitRange(h.z[i][j])

\* C6 amended: the matrix is square and symmetric; for a field whose values
\* are not all equal the diagonal entry is 1; every entry in the row and the
\* column of a field whose values are all equal is NaN, and every other entry
\* lies in [-1, 1].
C6_CorrelationMatrix_NonConstant ==
    HeatmapBuilt =>
        LET h == graph_result.graphs["heatmap"]
            Constant(i) == AllEqual(Lookup(data, h.columns[i]).value)
        IN  /\ Square(h)
            /\ Symmetric(h)
            /\ \A i \in 1..Len(h.z) : ~Constant(i) => h.z[i][i] = One
            /\ \A i, j \in 1..Len(h.z) :
                  IF Constant(i) \/ Constant(j) THEN h.z[i][j] = NaN
                  ELSE InUnitRange(h.z[i][j])

\* a heatmap over a constant field, a field and its mirror image (r = -1 or
\* in between) and an entry strictly inside (-1, 1)
C6_Witness ==
    /\ HeatmapBuilt
    /\ LET h == graph_result.graphs["heatmap"]
       IN  /\ h.z[1][1] = NaN
           /\ h.z[2][2] = One
           /\ h.z[2][3].sign = -1
           /\ RatLt(h.z[2][3].r2, <<1, 1>>)

\* C7 as stated: every call returns a graphs mapping with one entry per
\* recommended or requested chart type, each a chart or an inline error; a
\* chart type that cannot be built (here over homogeneous fields, of unequal
\* length or not) never makes the result a single top-level error.
C7_FailuresStayInline ==
    (Called(graph_result) /\ Homogeneous(data))
    => /\ HasGraphs(graph_result)
       /\ LET rec == RecommendedGraphs(graph_result.analysis, graph_type)
          IN  DOMAIN graph_result.graphs = {rec[i] : i \in 1..Len(rec)}

\* C9 as stated: two calls of generate_graph_from_data with the same dataset
\* and requested type return the same graphs, analysis and recommendations.
C9_SameArgumentsSameResult ==
    (Called(prev_graph_result) /\ Called(graph_result)) => prev_graph_result = graph_result

(***************************************************************************)
(* Properties of the regression path.                                      *)
(***************************************************************************)
\* the number of records dated day d
RecordsOn(hist, d) == Cardinality({i \in 1..Len(hist) : hist[i] = d})

\* the number of calendar days from the earliest to the latest record
Span(hist) == hist[Len(hist)] - hist[1] + 1

\* _generate_predictions was called and took the regression path
OnRegressionPath ==
    /\ Called(predictions)
    /\ Len(historical_data) >= MinDataPoints
    /\ Span(historical_data) >= 2

\* the ordinary-least-squares slope of daily count against 0-based day index,
\* sum((x - mx)(y - my)) / sum((x - mx)^2), as numerator and denominator
\* scaled by n^2
OlsSlope(hist) ==
    LET n == Span(hist)
        y == [k \in 1..n |-> RecordsOn(hist, hist[1] + k - 1)]
        Sx == SumTo([k \in 1..n |-> k - 1], n)
        Sy == SumTo(y, n)
    IN  <<SumTo([k \in 1..n |-> (n * (k - 1) - Sx) * (n * y[k] - Sy)], n),
          SumTo([k \in 1..n |-> (n * (k - 1) - Sx) * (n * (k - 1) - Sx)], n)>>

\* C11: on the regression path the label is 'increasing' exactly when the
\* slope exceeds 0.1, 'decreasing' exactly when it is below -0.1, and
\* 'stable' for every slope from -0.1 to 0.1, both included.
C11_LabelFollowsSlope ==
    OnRegressionPath =>
        LET s == OlsSlope(historical_data)
            label == predictions.trend_direction
        IN  /\ ~HasKey(predictions, "error")
            /\ (label = "increasing") <=> RatLt(<<1, 10>>, s)
            /\ (label = "decreasing") <=> RatLt(s, <<-1, 10>>)
            /\ (label = "stable") <=> (RatLe(<<-1, 10>>, s) /\ RatLe(s, <<1, 10>>))

\* a count that rises by the same amount every day over three days or more
\* was labelled 'increasing'
C11_Witness ==
    /\ OnRegressionPath
    /\ Span(historical_data) >= 3
    /\ \E b \in 1..MaxH :
          \A d \in historical_data[1]..(historical_data[Len(historical_data)] - 1) :
              RecordsOn(historical_data, d + 1) = RecordsOn(historical_data, d) + b
    /\ predictions.trend_direction = "increasing"

\* a slope of exactly 0.1 was labelled 'stable'
C11_BoundaryReached ==
    /\ OnRegressionPath
    /\ RatEq(OlsSlope(historical_data), <<1, 10>>)
    /\ predictions.trend_direction = "stable"

\* C12: the bucketing yields one bucket for each calendar day from the
\* earliest to the latest record date, in date order; each bucket holds the
\* number of records of its day, 0 for a day without records, and the
\* buckets sum to the number of records.
C12_OneBucketPerDay ==
    (Called(predictions) /\ daily_counts.built) =>
        LET count == daily_counts.count
            first == historical_data[1]
        IN  /\ Len(count) = Span(historical_data)
            /\ \A k \in 1..Len(count) : count[k] = RecordsOn(historical_data, first + k - 1)
            /\ SumTo(count, Len(count)) = Len(historical_data)

\* a history with a day without records between its first and last day was
\* bucketed, and that day's bucket holds 0
C12_Witness ==
    /\ Called(predictions)
    /\ daily_counts.built
    /\ \E k \in 2..(Len(daily_counts.count) - 1) :
          /\ daily_counts.count[k] = 0
          /\ RecordsOn(historical_data, historical_data[1] + k - 1) = 0
          /\ daily_counts.count[k + 1] > 0

\* the least-squares line through the daily counts, evaluated at day index x
FittedLine(hist, x) ==
    LET n == Span(hist)
        slope == OlsSlope(hist)
        Sx == SumTo([k \in 1..n |-> k - 1], n)
    IN  Rat(Len(hist) * slope[2] + slope[1] * (n * x - Sx), n * slope[2])

\* C13 as stated: in every successful forecast, the single-day case
\* included, future_dates are the H days that follow the latest record date;
\* on the regression path the i-th predicted count (i from 0) is the fitted
\* line at day index n + i, or 0 when that is negative.
C13_DatesFollowLastRecord ==
    (Called(predictions) /\ ~HasKey(predictions, "error")) =>
        LET last == historical_data[Len(historical_data)]
            n == Span(historical_data)
        IN  /\ Len(predictions.future_dates) = days_ahead
            /\ \A i \in 1..days_ahead : predictions.future_dates[i] = last + i
            /\ OnRegressionPath =>
                  \A i \in 1..days_ahead :
                      LET p == FittedLine(historical_data, n + i - 1)
                      IN  RatEq(predictions.predicted_counts[i],
                                IF p[1] < 0 THEN <<0, 1>> ELSE p)

\* the part of C13 that the regression path keeps
C13_RegressionPathOnly ==
    OnRegressionPath =>
        LET last == historical_data[Len(historical_data)]
            n == Span(historical_data)
        IN  /\ Len(predictions.future_dates) = days_ahead
            /\ \A i \in 1..days_ahead :
                  /\ predictions.future_dates[i] = last + i
                  /\ LET p == FittedLine(historical_data, n + i - 1)
                     IN  RatEq(predictions.predicted_counts[i],
                               IF p[1] < 0 THEN <<0, 1>> ELSE p)

\* the square of the standard deviation (n - 1 in the denominator) of the
\* daily counts from the earliest to the latest record date
Variance(hist) ==
    LET n == Span(hist)
        y == [k \in 1..n |-> RecordsOn(hist, hist[1] + k - 1)]
    IN  Rat(SumTo([k \in 1..n |-> (n * y[k] - Len(hist)) * (n * y[k] - Len(hist))], n),
            n * n * (n - 1))

\* p < sigma, for p >= 0 and sigma given by its square
BelowSigma(p, s2) == p[1] * p[1] * s2[2] < s2[1] * p[2] * p[2]

\* a bound a + b*sigma is at least 0
BoundNonNegative(bd) ==
    /\ bd.a[1] >= 0
    /\ bd.b >= 0 \/ ~BelowSigma(bd.a, bd.s2)

\* C14: on the regression path the i-th interval is
\* [max(0, p_i - sigma), p_i + sigma] with p_i the i-th predicted count and
\* sigma the standard deviation of the historical daily counts, the same for
\* all points; hence 0 <= low_i <= p_i <= high_i.
C14_IntervalAroundPrediction ==
    OnRegressionPath =>
        LET s2 == Variance(historical_data)
        IN  \A i \in 1..days_ahead :
                LET p == predictions.predicted_counts[i]
                    ci == predictions.confidence_interval[i]
                IN  /\ ci.hi = Bound(p, 1, s2)
                    /\ ci.lo = IF BelowSigma(p, s2) THEN Bound(Rat(0, 1), 0, s2)
                               ELSE Bound(p, -1, s2)
                    /\ BoundNonNegative(ci.lo)
                    /\ ci.lo.b <= 0 /\ RatLe(ci.lo.a, p)
                    /\ ci.hi.b >= 0 /\ RatLe(p, ci.hi.a)

\* a forecast with a positive predicted count below sigma, whose interval
\* starts at the clamped 0, next to sigma shared by two points
C14_Witness ==
    /\ OnRegressionPath
    /\ days_ahead >= 2
    /\ Variance(historical_data)[1] > 0
    /\ \E i \in 1..days_ahead :
          /\ predictions.predicted_counts[i][1] > 0
          /\ BelowSigma(predictions.predicted_counts[i], Variance(historical_data))
          /\ predictions.confidence_interval[i].lo = Bound(Rat(0, 1), 0, Variance(historical_data))

\* _generate_predictions was called with 7 or more records of one day
OnSingleDayPath ==
    /\ Called(predictions)
    /\ Len(historical_data) >= MinDataPoints
    /\ Span(historical_data) = 1

\* C15: when all records, 7 or more, fall on one calendar day, the forecast
\* is the mean daily count m (the number of records) repeated H times, with
\* trend 'stable' and every interval [0.8*m, 1.2*m].
C15_SingleDayForecast ==
    OnSingleDayPath =>
        LET m == Len(historical_data)
        IN  /\ ~HasKey(predictions, "error")
            /\ predictions.trend_direction = "stable"
            /\ Len(predictions.predicted_counts) = days_ahead
            /\ Len(predictions.confidence_interval) = days_ahead
            /\ \A i \in 1..days_ahead :
                  /\ RatIsInt(predictions.predicted_counts[i], m)
                  /\ predictions.confidence_interval[i].lo.b = 0
                  /\ predictions.confidence_interval[i].hi.b = 0
                  /\ RatEq(predictions.confidence_interval[i].lo.a, <<8 * m, 10>>)
                  /\ RatEq(predictions.confidence_interval[i].hi.a, <<12 * m, 10>>)

\* eight records of one day were forecast over two days or more
C15_Witness ==
    /\ OnSingleDayPath
    /\ Len(historical_data) = MinDataPoints + 1
    /\ days_ahead >= 2
    /\ RatIsInt(predictions.predicted_counts[days_ahead], MinDataPoints + 1)

(***************************************************************************)
(* Properties of the field classification.                                 *)
(***************************************************************************)
\* the first min(5, len) values of a field
FirstFive(f) == [k \in 1..(IF Len(f.value) < 5 THEN Len(f.value) ELSE 5) |-> f.value[k]]

\* the class the stated rule gives a field, "" for unclassified
ExpectedClass(f) ==
    IF ~f.is_list \/ f.value = <<>> THEN ""
    ELSE IF \A k \in 1..Len(FirstFive(f)) : FirstFive(f)[k].t = "num" THEN "numerical"
    ELSE IF \A k \in 1..Len(FirstFive(f)) : FirstFive(f)[k].t = "str" THEN "categorical"
    ELSE IF \A k \in 1..Len(FirstFive(f)) : FirstFive(f)[k].t = "dict" THEN "complex"
    ELSE ""

Occurs(x, seq) == \E k \in 1..Len(seq) : seq[k] = x

\* seq lists keys of the dataset without repetition and in the dataset's order
KeepsOrder(seq, d) ==
    \A j, k \in 1..Len(seq) :
        j < k => \E m, n \in 1..Len(d) : m < n /\ d[m].key = seq[j] /\ d[n].key = seq[k]

\* the analysis lists and types exactly what the stated rule gives
ClassifiedAsStated(a, d) ==
    /\ \A i \in 1..Len(d) :
          /\ Occurs(d[i].key, a.numerical_fields) <=> ExpectedClass(d[i]) = "numerical"
          /\ Occurs(d[i].key, a.categorical_fields) <=> ExpectedClass(d[i]) = "categorical"
          /\ ~(Occurs(d[i].key, a.numerical_fields) /\ Occurs(d[i].key, a.categorical_fields))
          /\ IF ExpectedClass(d[i]) = "" THEN d[i].key \notin DOMAIN a.data_types
             ELSE /\ d[i].key \in DOMAIN a.data_types
                  /\ a.data_types[d[i].key] = ExpectedClass(d[i])
    /\ KeepsOrder(a.numerical_fields, d)
    /\ KeepsOrder(a.categorical_fields, d)

\* C16 as stated: every field is classified by its first min(5, len) values,
\* appears in at most one of the two lists, in none when it is empty or not
\* a list, and the lists keep the dataset's order.
C16_ClassifiedBySample ==
    Called(data_analysis) =>
        /\ ~IsRaised(data_analysis)
        /\ ClassifiedAsStated(data_analysis, data)

\* what holds of C16: every analysis that is returned classifies as stated
C16_ReturnedAnalysisClassified ==
    (Called(data_analysis) /\ ~IsRaised(data_analysis)) =>
        ClassifiedAsStated(data_analysis, data)

\* the dataset with every list cut to its first five values
Head5(d) ==
    [i \in 1..Len(d) |->
        IF d[i].is_list THEN Field(d[i].key, TRUE, FirstFive(d[i])) ELSE d[i]]

ComplexFields(a) == [i \in 1..Len(a.relationships) |-> a.relationships[i].field]

\* C17 as stated: the classification depends on the first 5 values only, so
\* a dataset gets the numeric, categorical and complex lists of the dataset
\* cut to its first five values, and where that one gets charts it gets
\* charts too, whatever the types of the values after the fifth.
C17_SampleDecides ==
    Called(graph_result) =>
        LET cut == generate_graph_from_data(Head5(data), graph_type, hashseed)
        IN  HasGraphs(cut) =>
              /\ HasGraphs(graph_result)
              /\ graph_result.analysis.numerical_fields = cut.analysis.numerical_fields
              /\ graph_result.analysis.categorical_fields = cut.analysis.categorical_fields
              /\ ComplexFields(graph_result.analysis) = ComplexFields(cut.analysis)

\* what holds of C17: a call that returns charts returns the lists of the
\* dataset cut to its first five values
C17_ReturnedListsFollowSample ==
    (Called(graph_result) /\ HasGraphs(graph_result)) =>
        LET cut == analyze_data_structure(Head5(data), hashseed)
        IN  /\ ~IsRaised(cut)
            /\ graph_result.analysis.numerical_fields = cut.numerical_fields
            /\ graph_result.analysis.categorical_fields = cut.categorical_fields
            /\ ComplexFields(graph_result.analysis) = ComplexFields(cut)

(***************************************************************************)
(* Properties of the recommendation list.                                  *)
(***************************************************************************)
\* the list the stated rules build from the three counts, before truncation
RulesFired(temporal, categorical, numeric) ==
    (IF temporal >= 1 THEN <<"line">> ELSE <<>>)
    \o (IF categorical >= 1 THEN <<"bar">> ELSE <<>>)
    \o (IF categorical = 1 /\ numeric >= 1 THEN <<"pie">> ELSE <<>>)
    \o (IF numeric >= 2 THEN <<"scatter">> ELSE <<>>)
    \o (IF numeric >= 3 THEN <<"heatmap">> ELSE <<>>)

FirstThree(seq) == [k \in 1..(IF Len(seq) < 3 THEN Len(seq) ELSE 3) |-> seq[k]]

\* C18: the recommendation list is the first 3 elements of line, bar, pie,
\* scatter, heatmap as their rules fire, or bar alone when none fires; it is
\* never empty, never longer than 3, without duplicates, and decided by the
\* numbers of temporal, categorical and numeric fields.
C18_FirstThreeInOrder ==
    (recommendations # <<>> /\ ~IsRaised(data_analysis)) =>
        LET fired == RulesFired(Len(data_analysis.temporal_fields),
                                Len(data_analysis.categorical_fields),
                                Len(data_analysis.numerical_fields))
        IN  /\ recommendations = FirstThree(IF fired = <<>> THEN <<"bar">> ELSE fired)
            /\ Len(recommendations) \in 1..3
            /\ \A j, k \in 1..Len(recommendations) : recommendations[j] = recommendations[k] => j = k

\* all five rules fired and line, bar, pie were kept
C18_Witness ==
    /\ Len(data_analysis.temporal_fields) >= 1
    /\ Len(data_analysis.categorical_fields) = 1
    /\ Len(data_analysis.numerical_fields) >= 3
    /\ recommendations = <<"line", "bar", "pie">>

\* a field of date values
IsTemporal(f) ==
    /\ f.is_list /\ f.value # <<>>
    /\ \A k \in 1..Len(f.value) : f.value[k].t = "str" /\ f.value[k].s \in DateStrings

\* C19 as stated: for a dataset with a temporal field, 'auto' mode puts
\* 'line' first among the recommended chart types and the line chart has a
\* temporal field as its x axis.
C19_TemporalFieldGetsLine ==
    (Called(graph_result) /\ graph_type = "auto"
        /\ \E i \in 1..Len(data) : IsTemporal(data[i])) =>
        /\ HasGraphs(graph_result)
        /\ recommendations # <<>> /\ recommendations[1] = "line"
        /\ "line" \in DOMAIN graph_result.graphs
        /\ IsChart(graph_result.graphs["line"], "line")
        /\ \E i \in 1..Len(data) :
              IsTemporal(data[i]) /\ graph_result.graphs["line"].x_field = data[i].key

\* no analysis that is returned lists a temporal field
C19_NoTemporalFieldListed ==
    (Called(data_analysis) /\ ~IsRaised(data_analysis)) => data_analysis.temporal_fields = <<>>

(***************************************************************************)
(* Properties of the heatmap's preconditions.                              *)
(***************************************************************************)
\* the first five numeric fields of the analysis
FirstFiveNumeric(a) ==
    [k \in 1..(IF Len(a.numerical_fields) < 5 THEN Len(a.numerical_fields) ELSE 5) |->
        a.numerical_fields[k]]

\* at least two of the fields have sequences of one length
TwoOfEqualLength(d, fields) ==
    \E j, k \in 1..Len(fields) :
        /\ j # k
        /\ Len(Lookup(d, fields[j]).value) = Len(Lookup(d, fields[k]).value)

\* a heatmap was asked of the last call, by the request or by the recommendation
HeatmapAsked ==
    /\ Called(graph_result)
    /\ ~IsRaised(data_analysis)
    /\ \/ graph_type = "heatmap"
       \/ graph_type = "auto" /\ Occurs("heatmap", recommendations)

\* C20 as stated: a heatmap that is requested or recommended is constructed
\* whenever at least 2 of the first 5 numeric fields have sequences of equal
\* length, over at most the first 5 numeric fields, and is an inline error
\* only when fewer than 2 usable numeric fields remain.
C20_HeatmapFromTwoEqualFields ==
    HeatmapAsked =>
        LET first5 == FirstFiveNumeric(data_analysis)
        IN  /\ TwoOfEqualLength(data, first5) =>
                  /\ HasGraphs(graph_result)
                  /\ "heatmap" \in DOMAIN graph_result.graphs
                  /\ IsChart(graph_result.graphs["heatmap"], "heatmap")
                  /\ \A k \in 1..Len(graph_result.graphs["heatmap"].columns) :
                        Occurs(graph_result.graphs["heatmap"].columns[k], first5)
            /\ (HasGraphs(graph_result) /\ HasKey(graph_result.graphs["heatmap"], "error")) =>
                  ~TwoOfEqualLength(data, first5)

\* what the code does: the heatmap is constructed exactly when there are 3
\* or more numeric fields and the first five of them are all of one length
C20_HeatmapFromThreeAlignedFields ==
    HeatmapAsked =>
        LET first5 == FirstFiveNumeric(data_analysis)
            aligned == \A j, k \in 1..Len(first5) :
                          Len(Lookup(data, first5[j]).value) = Len(Lookup(data, first5[k]).value)
        IN  (Len(data_analysis.numerical_fields) >= 3 /\ aligned)
                <=> (/\ HasGraphs(graph_result)
                     /\ "heatmap" \in DOMAIN graph_result.graphs
                     /\ IsChart(graph_result.graphs["heatmap"], "heatmap"))

(***************************************************************************)
(* Properties of the bar, pie and line constructors.                       *)
(***************************************************************************)
\* the last call asked for one chart of a type built by the bar or the pie
\* constructor, and the analysis was returned
BarOrPieRequested ==
    /\ Called(graph_result)
    /\ ~IsRaised(data_analysis)
    /\ graph_type \in {"bar", "pie", "histogram"}

\* the chart of the requested type pairs the first categorical field with
\* the first numeric field
PairsFirstFields(entry, a, d) ==
    /\ IsChart(entry, IF graph_type = "pie" THEN "pie" ELSE "bar")
    /\ entry.x_field = a.categorical_fields[1]
    /\ entry.y_field = a.numerical_fields[1]
    /\ entry.x = Lookup(d, a.categorical_fields[1]).value
    /\ entry.y = Lookup(d, a.numerical_fields[1]).value

\* the outcome C21 states for the requested type
BarPieOutcomeAsStated ==
    /\ HasGraphs(graph_result)
    /\ DOMAIN graph_result.graphs = {graph_type}
    /\ IF Len(data_analysis.categorical_fields) >= 1 /\ Len(data_analysis.numerical_fields) >= 1
       THEN PairsFirstFields(graph_result.graphs[graph_type], data_analysis, data)
       ELSE HasKey(graph_result.graphs[graph_type], "error")

\* C21 as stated: a bar or pie request yields a chart pairing the first
\* categorical with the first numeric field exactly when the analysis has
\* one of each, and an inline error otherwise, never an exception; a type
\* that is none of the five is built as a bar chart under the requested name.
C21_BarPieExactlyWhenFieldsExist ==
    BarOrPieRequested => BarPieOutcomeAsStated

\* what holds of C21: the same, for datasets none of whose keys is empty
C21_BarPieWhenKeysNonEmpty ==
    (BarOrPieRequested /\ \A i \in 1..Len(data) : data[i].key # "") => BarPieOutcomeAsStated

\* the last call asked for a line chart and the analysis was returned
LineRequested ==
    /\ Called(graph_result)
    /\ ~IsRaised(data_analysis)
    /\ graph_type = "line"

\* the outcome C22 states: no temporal field is ever listed, so x is the
\* first key of the dataset
LineOutcomeAsStated ==
    /\ HasGraphs(graph_result)
    /\ DOMAIN graph_result.graphs = {"line"}
    /\ LET entry == graph_result.graphs["line"]
           a == data_analysis
       IN  IF Len(a.numerical_fields) = 0
           THEN HasKey(entry, "error")
           ELSE /\ IsChart(entry, "line")
                /\ entry.x_field = (IF a.temporal_fields # <<>> THEN a.temporal_fields[1]
                                     ELSE data[1].key)
                /\ entry.y_field = a.numerical_fields[1]
                /\ entry.traces = 1
                /\ entry.x = Lookup(data, entry.x_field).value
                /\ entry.y = Lookup(data, a.numerical_fields[1]).value

\* C22 as stated: a line chart has the first temporal field or else the
\* first key of the dataset as x and the first numeric field as y; it is an
\* inline error exactly when there is no numeric field, and otherwise plots
\* the values of the two fields.
C22_LineChartFields ==
    LineRequested => LineOutcomeAsStated

\* what holds of C22: the same, for datasets none of whose keys is empty and
\* whose first field is a list
C22_LineChartWhenFirstKeyUsable ==
    (LineRequested /\ (\A i \in 1..Len(data) : data[i].key # "")
        /\ (Len(data) > 0 => data[1].is_list)) => LineOutcomeAsStated

(***************************************************************************)
(* Recommended chart types against the constructors' preconditions.        *)
(***************************************************************************)
\* the last call was in 'auto' mode and returned a graphs mapping
AutoReturnedGraphs == AutoCalled /\ HasGraphs(graph_result)

\* C23 as stated: in 'auto' mode every recommended chart type meets its
\* constructor's precondition, so no entry of the returned graphs is an
\* error payload.
C23_NoInsufficientEntry ==
    AutoReturnedGraphs =>
        \A g \in DOMAIN graph_result.graphs : ~HasKey(graph_result.graphs[g], "error")

\* the bar and pie constructors refuse: a first field is missing or has the
\* empty key
BarPieRefused(a) ==
    \/ a.categorical_fields = <<>>
    \/ a.numerical_fields = <<>>
    \/ a.categorical_fields[1] = ""
    \/ a.numerical_fields[1] = ""

\* C23, amended: in 'auto' mode a scatter or heatmap entry of the returned
\* graphs is never an error payload; a bar or pie entry is an error payload
\* exactly when the analysis has no categorical field, no numeric field, or
\* an empty key for the first of either.
C23_OnlyBarAndPieCanBeInsufficient ==
    AutoReturnedGraphs =>
        \A g \in DOMAIN graph_result.graphs :
            /\ g \in {"bar", "pie", "scatter", "heatmap"}
            /\ g \in {"scatter", "heatmap"} => IsChart(graph_result.graphs[g], g)
            /\ g \in {"bar", "pie"} =>
                  (HasKey(graph_result.graphs[g], "error") <=> BarPieRefused(data_analysis))

\* a dataset of categorical fields only, without an empty key, was given the
\* recommended bar entry as an error payload
C23_Witness ==
    /\ AutoReturnedGraphs
    /\ Len(data_analysis.categorical_fields) >= 1
    /\ data_analysis.categorical_fields[1] # ""
    /\ data_analysis.numerical_fields = <<>>
    /\ recommendations = <<"bar">>
    /\ HasKey(graph_result.graphs["bar"], "error")

(***************************************************************************)
(* Job, queue and worker properties.                                       *)
(***************************************************************************)
Terminal == {"cancelled", "completed", "failed"}

\* a step that serves the job request `action`
Serves(action) == served' = served + 1 /\ http'.action = action

\* every row but pk is left as it was
OthersKept(pk) ==
    /\ Len(job_table') = Len(job_table)
    /\ \A other \in DOMAIN job_table : other # pk => job_table'[other] = job_table[other]

\* C24: for AnnotationJob and GalaxySyncJob rows alike, a start request on a
\* pending job sets it running and answers 200, a cancel request on a pending
\* or running job sets it cancelled and answers 200, and a request made in any
\* other status answers 400 and leaves the row, its status and started_at
\* included, as it was.
C24_StartCancelTransitions ==
    [][\A pk \in DOMAIN job_table :
          /\ (Serves("start") /\ http'.pk = pk) =>
                /\ OthersKept(pk)
                /\ IF job_table[pk].status = "pending"
                   THEN /\ http'.code = 200
                        /\ job_table'[pk].status = "running"
                   ELSE /\ http'.code = 400
                        /\ job_table'[pk] = job_table[pk]
          /\ (Serves("cancel") /\ http'.pk = pk) =>
                /\ OthersKept(pk)
                /\ IF job_table[pk].status \in {"pending", "running"}
                   THEN /\ http'.code = 200
                        /\ job_table'[pk].status = "cancelled"
                        /\ job_table'[pk].started_at = job_table[pk].started_at
                   ELSE /\ http'.code = 400
                        /\ job_table'[pk] = job_table[pk]]_vars

\* a start request was refused on a sync job that had been started and cancelled
C24_Witness ==
    /\ http.action = "start"
    /\ http.code = 400
    /\ job_table[http.pk].model = "GalaxySyncJob"
    /\ job_table[http.pk].status = "cancelled"

\* C25: once the status of an AnnotationJob is cancelled, completed or failed,
\* no step of start, cancel or process_annotation_jobs changes it.
C25_TerminalStatusIsFinal ==
    [][\A pk \in DOMAIN job_table :
          (/\ job_table[pk].model = "AnnotationJob"
           /\ job_table[pk].stored
           /\ job_table[pk].status \in Terminal)
          => job_table'[pk].status = job_table[pk].status]_vars

\* the part of C25 that the request handlers keep: start and cancel leave a
\* cancelled, completed or failed job as it is
C25_HandlersKeepTerminalStatus ==
    [][\A pk \in DOMAIN job_table :
          (/\ Serves("start") \/ Serves("cancel")
           /\ job_table[pk].status \in Terminal)
          => job_table'[pk].status = job_table[pk].status]_vars

\* the row was made by AWSAnnotationJobViewSet.create_job
MadeByCreateJob(pk) ==
    /\ pk \in Objects("AnnotationJob")
    /\ \E variant_ids \in VariantLists : job_table[pk].job_id = JobIdOf(variant_ids)

\* the jobs the worker has taken through its loop, in this run or the last one
LoopedOver ==
    {worker.jobs[k] : k \in 1..(worker.i - 1)}
    \cup (IF task_result.task = "process_annotation_jobs"
          THEN {task_result.jobs[k] : k \in 1..Len(task_result.jobs)} ELSE {})

\* process_annotation_jobs has handled the message queued for row pk, and every
\* source the message names is stored
Handled(pk) ==
    \E job \in LoopedOver :
        /\ job.body.job_id = ToString(pk)
        /\ \A k \in 1..Len(job.body.sources) : job.body.sources[k] \in AnnotationSources

Completed(pk) ==
    /\ job_table[pk].status = "completed"
    /\ job_table[pk].completed_at # Null
    /\ job_table[pk].processed_count = job_table[pk].variant_count

\* C26: a job made and queued by create_job, whose message the worker has
\* handled with all its sources stored, is completed: status completed, a
\* completed_at time, processed_count equal to variant_count.
C26_HandledJobIsCompleted ==
    \A pk \in DOMAIN job_table : (MadeByCreateJob(pk) /\ Handled(pk)) => Completed(pk)

\* what holds instead of C26: the worker looks the job up by the primary key that
\* the message carries in the job_id field, so it never writes to a row made by
\* create_job unless a client reset the row's job_id
C26_WorkerNeverWritesCreatedJob ==
    \A pk \in DOMAIN job_table :
        MadeByCreateJob(pk) =>
            /\ job_table[pk].completed_at = Null
            /\ job_table[pk].processed_count = 0

\* C27, second half: process_upload_jobs receives messages of the upload queue
\* only.
C27_UploadWorkerReadsUploadQueue ==
    worker.task = "process_upload_jobs" =>
        \A k \in 1..Len(worker.jobs) : worker.jobs[k].receipt_handle.queue = UPLOAD_QUEUE

\* what holds instead of the first half of C27: no message of the upload queue
\* is ever received
C27_UploadMessagesAreNeverReceived ==
    /\ \A m \in messages : m.queue = UPLOAD_QUEUE => ~m.in_flight
    /\ \A k \in 1..Len(worker.jobs) : worker.jobs[k].receipt_handle.queue # UPLOAD_QUEUE
    /\ \A k \in 1..Len(task_result.jobs) :
           task_result.jobs[k].receipt_handle.queue # UPLOAD_QUEUE

\* the outcome counts the job once: as processed when its message was
\* acknowledged and no database update raised, as failed otherwise
CountedAsStated(outcome) ==
    IF outcome.acknowledged /\ ~outcome.raised
    THEN outcome.processed /\ ~outcome.failed
    ELSE outcome.failed /\ ~outcome.processed

\* C28: a run of process_annotation_jobs that received k jobs returns counters
\* with processed + failed = k, each job counted once: processed when it was
\* acknowledged and its database update succeeded, failed otherwise.
C28_CountersAddUp ==
    task_result.task = "process_annotation_jobs" =>
        /\ task_result.processed + task_result.failed = Len(task_result.jobs)
        /\ \A k \in 1..Len(task_result.outcomes) : CountedAsStated(task_result.outcomes[k])

IsTail(seq, all, n) ==
    /\ Len(seq) = (IF Len(all) > n THEN n ELSE Len(all))
    /\ \A k \in 1..Len(seq) : seq[k] = all[Len(all) - Len(seq) + k]

\* C30: after every call conversation_history holds at most 10 entries, the
\* most recent successful exchanges in call order; a chat whose generation
\* failed appended nothing; reset_conversation left the history empty; and the
\* prompt of a chat holds the last 5 entries at most of the history it found.
C30_HistoryIsRecentExchanges ==
    [][calls' = calls + 1 =>
          /\ Len(conversation_history') <= MaxHistory
          /\ IsTail(conversation_history', exchanges', MaxHistory)
          /\ reply'.response = "I apologize" =>
                 conversation_history' = conversation_history
          /\ reply'.response = "Conversation history reset" =>
                 conversation_history' = <<>>
          /\ (reply'.status = 200 /\ reply'.response # "Conversation history reset") =>
                 /\ Len(prompt'.history) <= PromptWindow
                 /\ IsTail(prompt'.history, conversation_history, PromptWindow)]_vars

\* an eleventh successful exchange pushed the first one out of the history
C30_Witness ==
    /\ Len(exchanges) > MaxHistory
    /\ Len(conversation_history) = MaxHistory
    /\ Len(prompt.history) = PromptWindow

(***************************************************************************)
(* Concurrency properties.                                                 *)
(***************************************************************************)
\* what the request returns when no other request runs
RunAlone(req) == IF api_key THEN Alone(req) ELSE InitFailed(req.kind)

\* C10: under every interleaving each finished call has returned what it
\* returns when run alone, each global holds nothing or an object of its own
\* class, and every service object is as its constructor left it.
C10_CallsDoNotInterfere ==
    /\ \A t \in Threads : pc[t] = "done" => response[t] = RunAlone(request[t])
    /\ \A k \in {"trend", "graph"} :
          singleton[k] # 0 => instances[singleton[k]].cls = ClassOf(k)
    /\ \A i \in 1..Len(instances) : instances[i].model_name = GeminiModel

\* two threads raced through the getter of one service, each constructed an
\* object, and both calls answered: one with charts, one with its error
C10_Witness ==
    /\ \A t \in Threads : pc[t] = "done"
    /\ \E t, u \in Threads :
          /\ t # u
          /\ request[t].kind = "graph" /\ request[u].kind = "graph"
          /\ created[t] # 0 /\ created[u] # 0
          /\ instance[t] = instance[u]
          /\ HasGraphs(response[t])
          /\ HasKey(response[u], "error")

=============================================================================
